---- MODULE Spec2Model ----
(***************************************************************************)
(* Aggregation layers (sdk-data-source.js, graphql-data-source.js) and the *)
(* GraphQL query client (graphql-client.js) of Full-Sail-Analytics.        *)
(*                                                                         *)
(* The two aggregation layers are separate modules with separate caches    *)
(* and separate fetchers; `layer` fixes which of them a behaviour is about.*)
(***************************************************************************)
EXTENDS Integers, Sequences, FiniteSets, TLC

(***************************************************************************)
(* Bounds of the model.                                                    *)
(***************************************************************************)
MaxTicks == 2          \* clock advances in one behaviour
MaxPoolsPerDex == 2    \* longest list a per-DEX fetcher resolves to

(***************************************************************************)
(* JavaScript values.  A value is a record whose only field names its      *)
(* type, so that values of different types compare unequal.                *)
(***************************************************************************)
Null == [null |-> TRUE]
Undefined == [undefined |-> TRUE]
Num(n) == [num |-> n]
Str(s) == [str |-> s]
Bool(b) == [bool |-> b]

IsNum(x) == DOMAIN x = {"num"}

\* ToBoolean: 0, "", false, null and undefined are falsy.
Truthy(x) ==
    CASE DOMAIN x = {"num"} -> x.num # 0
      [] DOMAIN x = {"str"} -> x.str # ""
      [] DOMAIN x = {"bool"} -> x.bool
      [] OTHER -> FALSE

\* x || y
Or(x, y) == IF Truthy(x) THEN x ELSE y

\* variant of ??: only null takes the right-hand side
NullishNullOnly(x, y) == IF x = Null THEN y ELSE x

\* x ?? y
Nullish(x, y) == IF x = Null \/ x = Undefined THEN y ELSE x

\* the number added by `sum + (x || 0)` for a numeric, null or missing x
OrZero(x) == IF Truthy(x) /\ IsNum(x) THEN x.num ELSE 0

(***************************************************************************)
(* Program constants.                                                      *)
(***************************************************************************)
CACHE_TTL_MS == 5 * 60 * 1000

\* feeRate is kept in units of 1/10000, so 0.003 is 30
DefaultFeeRate == 30

dexNames == <<"Cetus", "Bluefin", "Full Sail">>
DexSet == {dexNames[i] : i \in 1..Len(dexNames)}

Layers == {"SDK", "GraphQL"}

\* the clock advances in steps of half the TTL: ages 0, TTL/2, TTL, ...
TickMs == CACHE_TTL_MS \div 2

(***************************************************************************)
(* Raw pools as the per-DEX fetchers hand them over.                       *)
(***************************************************************************)
\* pool.f: a missing property reads as undefined
Get(pool, f) == IF f \in DOMAIN pool THEN pool[f] ELSE Undefined

PoolIds ==
    [d \in DexSet |->
        CASE d = "Cetus" -> <<"cetus-1", "cetus-2", "cetus-3", "cetus-4">>
          [] d = "Bluefin" -> <<"bluefin-1", "bluefin-2", "bluefin-3", "bluefin-4">>
          [] OTHER -> <<"fs-1", "fs-2", "fs-3", "fs-4">>]

\* The i-th pool of exchange d, holding the fields its fetcher set.  Cetus reports volume, fees and apr as
\* unavailable (null); Bluefin mixes zeros, nulls and missing fields; Full
\* Sail uses the alternate field names pool / symbol / apy.
RawPool(d, i) ==
    CASE d = "Cetus" ->
            [id |-> Str(PoolIds[d][i]), name |-> Str("SUI/USDC"), dex |-> Str(d),
                 tvl |-> Num(2 + i), volume_24h |-> Null, fees_24h |-> Null,
                 apr |-> Null, feeRate |-> Num(25)]
      [] d = "Bluefin" ->
            IF i % 2 = 1
            THEN [id |-> Str(PoolIds[d][i]), name |-> Str("SUI/USDT"), dex |-> Str(d),
                      tvl |-> Num(2), volume_24h |-> Num(0), fees_24h |-> Num(1),
                      apr |-> Num(0), stablecoin |-> Bool(TRUE)]
            ELSE [id |-> Str(PoolIds[d][i]), name |-> Str("DEEP/SUI"), dex |-> Str(d),
                      tvl |-> Null, volume_24h |-> Num(3), fees_24h |-> Num(2)]
      [] OTHER ->
            [pool |-> Str(PoolIds[d][i]), symbol |-> Str("IKA/SUI"), dex |-> Str(d),
                 tvl |-> Num(i), volume_24h |-> Num(i + 1), apy |-> Num(7)]

\* the lists a fetcher of exchange d can resolve to: the first n pools, n >= 0
PoolList(d, n) == [i \in 1..n |-> RawPool(d, i)]
PoolLists(d) == {PoolList(d, n) : n \in 0..MaxPoolsPerDex}

(***************************************************************************)
(* normalizePool, one per aggregation layer.                               *)
(***************************************************************************)
\* variant of toNumber: null takes the default as well
toNumberOrDefault(val, defaultVal) == Or(val, defaultVal)

\* sdk-data-source.js: preserve null, default undefined
toNumber(val, defaultVal) == IF val = Null THEN Null ELSE Nullish(val, defaultVal)

normalizePoolSDK(pool) ==
    [id |-> Or(Get(pool, "id"), Get(pool, "pool")),
     name |-> Or(Or(Get(pool, "name"), Get(pool, "symbol")), Str("Unknown")),
     dex |-> Get(pool, "dex"),
     tvl |-> toNumber(Get(pool, "tvl"), Num(0)),
     volume_24h |-> toNumber(Get(pool, "volume_24h"), Num(0)),
     volume_7d |-> toNumber(Get(pool, "volume_7d"), Num(0)),
     volume_30d |-> toNumber(Get(pool, "volume_30d"), Num(0)),
     fees_24h |-> toNumber(Get(pool, "fees_24h"), Num(0)),
     fees_7d |-> toNumber(Get(pool, "fees_7d"), Num(0)),
     fees_30d |-> toNumber(Get(pool, "fees_30d"), Num(0)),
     feeRate |-> toNumber(Get(pool, "feeRate"), Num(DefaultFeeRate)),
     apr |-> IF Get(pool, "apr") = Null THEN Null ELSE Or(Or(Get(pool, "apr"), Get(pool, "apy")), Num(0)),
     apyBase |-> toNumber(Get(pool, "apyBase"), Num(0)),
     apyReward |-> toNumber(Get(pool, "apyReward"), Num(0)),
     stablecoin |-> Or(Get(pool, "stablecoin"), Bool(FALSE))]

normalizePoolGraphQL(pool) ==
    [id |-> Or(Get(pool, "id"), Get(pool, "pool")),
     name |-> Or(Or(Get(pool, "name"), Get(pool, "symbol")), Str("Unknown")),
     dex |-> Get(pool, "dex"),
     tvl |-> Or(Get(pool, "tvl"), Num(0)),
     volume_24h |-> Or(Get(pool, "volume_24h"), Num(0)),
     volume_7d |-> Or(Get(pool, "volume_7d"), Num(0)),
     volume_30d |-> Or(Get(pool, "volume_30d"), Num(0)),
     fees_24h |-> Or(Get(pool, "fees_24h"), Num(0)),
     fees_7d |-> Or(Get(pool, "fees_7d"), Num(0)),
     fees_30d |-> Or(Get(pool, "fees_30d"), Num(0)),
     feeRate |-> Or(Get(pool, "feeRate"), Num(DefaultFeeRate)),
     apr |-> Or(Or(Get(pool, "apr"), Get(pool, "apy")), Num(0)),
     apyBase |-> Or(Get(pool, "apyBase"), Num(0)),
     apyReward |-> Or(Get(pool, "apyReward"), Num(0)),
     stablecoin |-> Or(Get(pool, "stablecoin"), Bool(FALSE))]

normalizePool(l, pool) ==
    IF l = "SDK" THEN normalizePoolSDK(pool) ELSE normalizePoolGraphQL(pool)

(***************************************************************************)
(* calculateDexStats: one pass over the pools, in order.                   *)
(***************************************************************************)
\* the property key a value is used as: stats[pool.dex]
Key(x) == IF DOMAIN x = {"str"} THEN x.str ELSE "undefined"

NoStats == [k \in {} |-> 0]

ZeroStats == [poolCount |-> 0, totalTVL |-> 0, volume24h |-> 0, fees24h |-> 0]

\* variant of the loop body: the totals are assigned, not accumulated
addPoolToStatsAssign(stats, pool) ==
    LET k == Key(pool.dex)
        s == IF k \in DOMAIN stats THEN stats[k] ELSE ZeroStats
        s2 == [poolCount |-> s.poolCount + 1,
               totalTVL |-> OrZero(pool.tvl),
               volume24h |-> OrZero(pool.volume_24h),
               fees24h |-> OrZero(pool.fees_24h)]
    IN [x \in DOMAIN stats \cup {k} |-> IF x = k THEN s2 ELSE stats[x]]

\* the body of the for loop, for one pool
addPoolToStats(stats, pool) ==
    LET k == Key(pool.dex)
        s == IF k \in DOMAIN stats THEN stats[k] ELSE ZeroStats
        s2 == [poolCount |-> s.poolCount + 1,
               totalTVL |-> s.totalTVL + OrZero(pool.tvl),
               volume24h |-> s.volume24h + OrZero(pool.volume_24h),
               fees24h |-> s.fees24h + OrZero(pool.fees_24h)]
    IN [x \in DOMAIN stats \cup {k} |-> IF x = k THEN s2 ELSE stats[x]]

RECURSIVE calcStatsFrom(_, _, _)
calcStatsFrom(pools, i, stats) ==
    IF i > Len(pools) THEN stats
    ELSE calcStatsFrom(pools, i + 1, addPoolToStats(stats, pools[i]))

calculateDexStats(pools) == calcStatsFrom(pools, 1, NoStats)

\* pools.reduce((sum, p) => sum + (p[field] || 0), 0)
RECURSIVE reduceSum(_, _, _)
reduceSum(pools, field, i) ==
    IF i > Len(pools) THEN 0
    ELSE OrZero(pools[i][field]) + reduceSum(pools, field, i + 1)

(***************************************************************************)
(* State of one aggregation layer.                                         *)
(***************************************************************************)
VARIABLES
    layer,        \* the aggregation layer: "SDK" or "GraphQL"
    now,          \* Date.now(), in ms
    cache,        \* the module-level cache {data, timestamp}
    calls         \* the fetch calls: position, argument, fetchers invoked and
                  \* settled, return value

aggVars == <<layer, now, cache, calls>>

\* The calls that can be open at once.  The presentation layer awaits one
\* call before it issues the next, so Next uses the first only.
CallIds == {1, 2}
SeqCallIds == {1}

Pending == [status |-> "pending"]
Fulfilled(v) == [status |-> "fulfilled", value |-> v]
Rejected == [status |-> "rejected", reason |-> Str("error")]

IdleCall ==
    [pc |-> "idle", forceRefresh |-> FALSE, fromCache |-> FALSE,
     invoked |-> [d \in DexSet |-> 0],
     results |-> [d \in DexSet |-> Pending], ret |-> Undefined]

EmptyCache == [data |-> Null, timestamp |-> 0]

\* What the fetcher of exchange d does in layer l, as the environment decides:
\* it rejects or resolves to a list; the SDK layer's dynamic import of the
\* Full Sail fetcher can fail as well.
FetcherEvents(l, d) ==
    {[kind |-> "reject"]}
      \cup {[kind |-> "resolve", value |-> v] : v \in PoolLists(d)}
      \cup (IF l = "SDK" /\ d = "Full Sail" THEN {[kind |-> "importFail"]} ELSE {})

\* sdk-data-source.js fetchFullSailPools: a failed import is caught and gives
\* []; the imported fetcher's promise is returned without await, so its
\* rejection passes through.
fetchFullSailPoolsWrapper(ev) ==
    CASE ev.kind = "importFail" -> Fulfilled(<<>>)
      [] ev.kind = "reject" -> Rejected
      [] OTHER -> Fulfilled(ev.value)

\* the entry of Promise.allSettled's result for one fetcher
settledResult(l, d, ev) ==
    IF l = "SDK" /\ d = "Full Sail" THEN fetchFullSailPoolsWrapper(ev)
    ELSE IF ev.kind = "reject" THEN Rejected ELSE Fulfilled(ev.value)

\* variants of the cache check: the entry still served at exactly the TTL;
\* forceRefresh not consulted
cacheHitAtTTL(forceRefresh, c, t) ==
    ~forceRefresh /\ c.data # Null /\ (t - c.timestamp) <= CACHE_TTL_MS

cacheHitForced(forceRefresh, c, t) ==
    c.data # Null /\ (t - c.timestamp) < CACHE_TTL_MS

\* the cache check at the head of fetchSDKPoolData / fetchGraphQLPoolData
cacheHit(forceRefresh, c, t) ==
    ~forceRefresh /\ Truthy(Bool(c.data # Null)) /\ (t - c.timestamp) < CACHE_TTL_MS

\* variants of the success condition: emptiness never checked; emptiness
\* checked in the SDK layer only
countsAsSuccessAnyLength(l, result) ==
    result.status = "fulfilled"

countsAsSuccessSDKOnly(l, result) ==
    result.status = "fulfilled" /\ (l = "SDK" => Len(result.value) > 0)

\* the condition of the forEach over the settled results
countsAsSuccess(l, result) ==
    result.status = "fulfilled" /\ Len(result.value) > 0

\* variant of the collection: the lists are joined last exchange first
RECURSIVE collectPoolsReversed(_, _, _)
collectPoolsReversed(l, results, i) ==
    IF i > Len(dexNames) THEN <<>>
    ELSE collectPoolsReversed(l, results, i + 1)
         \o (IF countsAsSuccess(l, results[dexNames[i]])
             THEN results[dexNames[i]].value ELSE <<>>)

\* variant of the collection: a rejected fetcher ends it (fail-fast join)
RECURSIVE collectPoolsFailFast(_, _, _)
collectPoolsFailFast(l, results, i) ==
    IF i > Len(dexNames) \/ results[dexNames[i]].status = "rejected" THEN <<>>
    ELSE (IF countsAsSuccess(l, results[dexNames[i]])
          THEN results[dexNames[i]].value ELSE <<>>)
         \o collectPoolsFailFast(l, results, i + 1)

\* results.forEach: allPools, in the order of dexNames
RECURSIVE collectPools(_, _, _)
collectPools(l, results, i) ==
    IF i > Len(dexNames) THEN <<>>
    ELSE (IF countsAsSuccess(l, results[dexNames[i]])
          THEN results[dexNames[i]].value ELSE <<>>)
         \o collectPools(l, results, i + 1)

\* variant of the status map: only a rejection leaves 'failed'
collectStatusRejectedOnly(l, results) ==
    [d \in DexSet |-> IF results[d].status = "rejected" THEN "failed" ELSE "success"]

collectStatus(l, results) ==
    [d \in DexSet |-> IF countsAsSuccess(l, results[d]) THEN "success" ELSE "failed"]

\* the result object built after Promise.allSettled
buildResult(l, results, t) ==
    LET allPools == collectPools(l, results, 1)
        pools == [i \in 1..Len(allPools) |-> normalizePool(l, allPools[i])]
    IN [pools |-> pools,
        dexStats |-> calculateDexStats(pools),
        summary |-> [totalTVL |-> reduceSum(pools, "tvl", 1),
                     totalVolume24h |-> reduceSum(pools, "volume_24h", 1),
                     totalPools |-> Len(pools)],
        lastUpdated |-> t,
        mode |-> l,
        fetchStatus |-> collectStatus(l, results)]

InFlight == {c \in CallIds : calls[c].pc = "await"}

AggInit ==
    /\ layer \in Layers
    /\ now = TickMs
    /\ cache = EmptyCache
    /\ calls = [c \in CallIds |-> IdleCall]

\* variant of the call: a call made while a pass is in flight joins that pass
\* instead of invoking the fetchers
fetchPoolDataCallCoalesced(c, forceRefresh) ==
    /\ calls[c].pc = "idle"
    /\ IF cacheHit(forceRefresh, cache, now)
       THEN /\ calls' = [calls EXCEPT ![c] =
                  [@ EXCEPT !.pc = "done", !.forceRefresh = forceRefresh,
                            !.fromCache = TRUE,
                            !.ret = [cache.data EXCEPT !.mode = layer]]]
       ELSE /\ calls' = [calls EXCEPT ![c] =
                  [@ EXCEPT !.pc = "await", !.forceRefresh = forceRefresh,
                            !.invoked = [d \in DexSet |->
                                            IF InFlight = {} THEN @[d] + 1 ELSE @[d]]]]
    /\ UNCHANGED <<layer, now, cache>>

\* fetchSDKPoolData / fetchGraphQLPoolData up to the await: either the cached
\* result is returned, or the three fetchers are invoked.
fetchPoolDataCall(c, forceRefresh) ==
    /\ calls[c].pc = "idle"
    /\ IF cacheHit(forceRefresh, cache, now)
       THEN /\ calls' = [calls EXCEPT ![c] =
                  [@ EXCEPT !.pc = "done", !.forceRefresh = forceRefresh,
                            !.fromCache = TRUE,
                            !.ret = [cache.data EXCEPT !.mode = layer]]]
       ELSE /\ calls' = [calls EXCEPT ![c] =
                  [@ EXCEPT !.pc = "await", !.forceRefresh = forceRefresh,
                            !.invoked = [d \in DexSet |-> @[d] + 1]]]
    /\ UNCHANGED <<layer, now, cache>>

\* one of the three fetcher promises of call c settles
fetcherSettles(c, d, ev) ==
    /\ calls[c].pc = "await"
    /\ calls[c].results[d] = Pending
    /\ calls' = [calls EXCEPT ![c].results[d] = settledResult(layer, d, ev)]
    /\ UNCHANGED <<layer, now, cache>>

\* variant of the completion: a result without pools is not stored
fetchPoolDataResumeSkipEmpty(c) ==
    /\ calls[c].pc = "await"
    /\ \A d \in DexSet : calls[c].results[d] # Pending
    /\ LET result == buildResult(layer, calls[c].results, now) IN
         /\ cache' = IF Len(result.pools) = 0 THEN cache
                     ELSE [data |-> result, timestamp |-> now]
         /\ calls' = [calls EXCEPT ![c].pc = "done", ![c].ret = result]
    /\ UNCHANGED <<layer, now>>

\* variant of the completion: an entry already stored is kept
fetchPoolDataResumeFirstWins(c) ==
    /\ calls[c].pc = "await"
    /\ \A d \in DexSet : calls[c].results[d] # Pending
    /\ LET result == buildResult(layer, calls[c].results, now) IN
         /\ cache' = IF cache.data # Null THEN cache
                     ELSE [data |-> result, timestamp |-> now]
         /\ calls' = [calls EXCEPT ![c].pc = "done", ![c].ret = result]
    /\ UNCHANGED <<layer, now>>

\* Promise.allSettled resolves; the rest of the function runs without
\* suspension: collect, normalize, build the result, store it, return it.
fetchPoolDataResume(c) ==
    /\ calls[c].pc = "await"
    /\ \A d \in DexSet : calls[c].results[d] # Pending
    /\ LET result == buildResult(layer, calls[c].results, now) IN
         /\ cache' = [data |-> result, timestamp |-> now]
         /\ calls' = [calls EXCEPT ![c].pc = "done", ![c].ret = result]
    /\ UNCHANGED <<layer, now>>

\* the caller's await of the call ends: it takes the returned value
callerTakesResult(c) ==
    /\ calls[c].pc = "done"
    /\ calls' = [calls EXCEPT ![c] = IdleCall]
    /\ UNCHANGED <<layer, now, cache>>

\* variant of the clear: only the timestamp is reset
clearCacheTimestampOnly ==
    /\ cache' = [cache EXCEPT !.timestamp = 0]
    /\ UNCHANGED <<layer, now, calls>>

\* clearSDKCache / clearGraphQLCache
clearCache ==
    /\ cache' = EmptyCache
    /\ UNCHANGED <<layer, now, calls>>

\* time passes
Tick ==
    /\ now < TickMs * (MaxTicks + 1)
    /\ now' = now + TickMs
    /\ UNCHANGED <<layer, cache, calls>>

AggNext ==
    \/ \E c \in SeqCallIds, f \in BOOLEAN : fetchPoolDataCall(c, f)
    \/ \E c \in SeqCallIds, d \in DexSet :
          \E ev \in FetcherEvents(layer, d) : fetcherSettles(c, d, ev)
    \/ \E c \in SeqCallIds : fetchPoolDataResume(c)
    \/ \E c \in SeqCallIds : callerTakesResult(c)
    \/ clearCache
    \/ Tick

(***************************************************************************)
(* Overlapping calls of one layer.  Each of the two call slots is used     *)
(* once; the order in which the calls were made, the order in which they   *)
(* returned and the calls that were in flight at a clear are recorded.     *)
(* Only the Cetus fetcher may reject here.                                 *)
(***************************************************************************)
VARIABLES
    startOrder,   \* the calls made so far, in order, each with the
                  \* number of calls that had returned when it was made
    doneOrder,    \* the calls that have returned, in order
    clearedDuring \* the calls whose pass was in flight when the cache was cleared

raceVars == <<startOrder, doneOrder, clearedDuring>>

RaceIdle == startOrder = <<>> /\ doneOrder = <<>> /\ clearedDuring = {}

RaceEvents(l, d) ==
    {[kind |-> "resolve", value |-> PoolList(d, 1)]}
      \cup (IF d = dexNames[1] THEN {[kind |-> "reject"]} ELSE {})

raceCall(c, forceRefresh) ==
    /\ fetchPoolDataCall(c, forceRefresh)
    /\ startOrder' = Append(startOrder, [call |-> c, returned |-> Len(doneOrder)])
    /\ doneOrder' = IF calls'[c].pc = "done" THEN Append(doneOrder, c) ELSE doneOrder
    /\ UNCHANGED clearedDuring

\* variant of the completion: the pass of a call that was in flight at a clear
\* does not store its result
raceResumeHonoursClear(c) ==
    /\ calls[c].pc = "await"
    /\ \A d \in DexSet : calls[c].results[d] # Pending
    /\ LET result == buildResult(layer, calls[c].results, now) IN
         /\ cache' = IF c \in clearedDuring THEN cache
                     ELSE [data |-> result, timestamp |-> now]
         /\ calls' = [calls EXCEPT ![c].pc = "done", ![c].ret = result]
    /\ doneOrder' = Append(doneOrder, c)
    /\ UNCHANGED <<layer, now, startOrder, clearedDuring>>

raceResume(c) ==
    /\ fetchPoolDataResume(c)
    /\ doneOrder' = Append(doneOrder, c)
    /\ UNCHANGED <<startOrder, clearedDuring>>

\* clearSDKCache / clearGraphQLCache, possibly while passes are in flight
raceClear ==
    /\ clearCache
    /\ clearedDuring' = clearedDuring \cup InFlight
    /\ UNCHANGED <<startOrder, doneOrder>>

RaceNext ==
    \/ \E c \in CallIds, f \in BOOLEAN : raceCall(c, f)
    \/ \E c \in CallIds, d \in DexSet :
          \E ev \in RaceEvents(layer, d) : fetcherSettles(c, d, ev) /\ UNCHANGED raceVars
    \/ \E c \in CallIds : raceResume(c)
    \/ raceClear
    \/ Tick /\ UNCHANGED raceVars

(***************************************************************************)
(* The query client: executeQuery (graphql-client.js).                     *)
(***************************************************************************)
MAX_RETRIES == 3
INITIAL_BACKOFF_MS == 500

VARIABLES
    qpc,          \* "idle", "fetching", "sleeping", "returned" or "threw"
    attempt,      \* the loop variable
    lastError,    \* the last error caught
    fetchCalls,   \* number of calls of fetch() by this invocation
    sleeps,       \* the backoff delays slept, in order
    responses,    \* what the endpoint answered to each fetch(), in order
    qret          \* the value returned or the error thrown

queryVars == <<qpc, attempt, lastError, fetchCalls, sleeps, responses, qret>>

RECURSIVE Pow2(_)
Pow2(n) == IF n = 0 THEN 1 ELSE 2 * Pow2(n - 1)

HttpStatuses == {200, 404, 500}
ErrorLists == {<<>>, <<"Field not found">>, <<"Field not found", "Timeout">>}

\* a parsed response body: errors may be absent, empty or non-empty
Bodies ==
    {[json |-> FALSE]}
      \cup {[json |-> TRUE, hasErrors |-> FALSE, data |-> Str("data")]}
      \cup {[json |-> TRUE, hasErrors |-> TRUE, errors |-> e,
             data |-> IF e = <<>> THEN Str("data") ELSE Null] : e \in ErrorLists}

\* what one fetch() can end in: a rejection (connection error) or a response
Responses ==
    {[kind |-> "networkError"]}
      \cup {[kind |-> "response", status |-> st, body |-> b] :
              st \in HttpStatuses, b \in Bodies}

\* response.ok
ResponseOk(r) == r.status >= 200 /\ r.status <= 299

NetworkError(k) == [type |-> "network", attempt |-> k]
HttpError(st) == [type |-> "GraphQL request failed", status |-> st]
GraphQLErrors(msgs) == [type |-> "GraphQL errors", messages |-> msgs]
JsonError == [type |-> "SyntaxError"]

\* the try block for one response: the value returned or the error thrown
tryBlock(r, k) ==
    IF r.kind = "networkError" THEN [threw |-> TRUE, error |-> NetworkError(k)]
    ELSE IF ~ResponseOk(r) THEN [threw |-> TRUE, error |-> HttpError(r.status)]
    ELSE IF ~r.body.json THEN [threw |-> TRUE, error |-> JsonError]
    ELSE IF r.body.hasErrors /\ Len(r.body.errors) > 0
         THEN [threw |-> TRUE, error |-> GraphQLErrors(r.body.errors)]
    ELSE [threw |-> FALSE, value |-> r.body.data]

\* does the catch block sleep after a failure of attempt k?
sleepsAfter(k) == k < MAX_RETRIES - 1

\* variant of the loop condition: one attempt more
loopContinuesOneMore(k) == k <= MAX_RETRIES

\* the condition of the for loop
loopContinues(k) == k < MAX_RETRIES

backoffMs(k) == INITIAL_BACKOFF_MS * Pow2(k)

QueryInit ==
    /\ qpc = "idle"
    /\ attempt = 0
    /\ lastError = Undefined
    /\ fetchCalls = 0
    /\ sleeps = <<>>
    /\ responses = <<>>
    /\ qret = Undefined

\* executeQuery is called: attempt 0 issues fetch()
executeQueryCall ==
    /\ qpc = "idle"
    /\ qpc' = "fetching"
    /\ attempt' = 0
    /\ fetchCalls' = 1
    /\ UNCHANGED <<lastError, sleeps, responses, qret>>

\* fetch() settles with r and the try block runs.  On a throw the catch block
\* records the error and either sleeps or goes straight to attempt++.
fetchSettles(r) ==
    /\ qpc = "fetching"
    /\ responses' = Append(responses, r)
    /\ LET t == tryBlock(r, attempt) IN
         IF ~t.threw
         THEN /\ qpc' = "returned"
              /\ qret' = t.value
              /\ UNCHANGED <<attempt, lastError, sleeps, fetchCalls>>
         ELSE /\ lastError' = t.error
              /\ IF sleepsAfter(attempt)
                 THEN /\ qpc' = "sleeping"
                      /\ sleeps' = Append(sleeps, backoffMs(attempt))
                      /\ UNCHANGED <<attempt, fetchCalls, qret>>
                 ELSE /\ attempt' = attempt + 1
                      /\ IF loopContinues(attempt + 1)
                         THEN /\ qpc' = "fetching"
                              /\ fetchCalls' = fetchCalls + 1
                              /\ UNCHANGED qret
                         ELSE \* throw lastError
                              /\ qpc' = "threw"
                              /\ qret' = t.error
                              /\ UNCHANGED fetchCalls
                      /\ UNCHANGED sleeps

\* the backoff timer fires: attempt++, then the loop condition
backoffElapses ==
    /\ qpc = "sleeping"
    /\ attempt' = attempt + 1
    /\ IF loopContinues(attempt + 1)
       THEN /\ qpc' = "fetching"
            /\ fetchCalls' = fetchCalls + 1
            /\ UNCHANGED qret
       ELSE /\ qpc' = "threw"
            /\ qret' = lastError
            /\ UNCHANGED fetchCalls
    /\ UNCHANGED <<lastError, sleeps, responses>>

QueryNext ==
    \/ executeQueryCall
    \/ \E r \in Responses : fetchSettles(r)
    \/ backoffElapses

(***************************************************************************)
(* normalizePool applied to one raw pool.  The raw pool is drawn from the  *)
(* pools in which apr and apy vary freely, one further field varies on its *)
(* own and the remaining fields share one value.                           *)
(***************************************************************************)
MaxMetric == 1         \* largest raw metric value

VARIABLES
    rawIn,      \* the raw pool, Null while there is none
    normOut     \* normalizePool(rawIn), Null before the call returns

normVars == <<rawIn, normOut>>

\* the property is not set on the raw pool
Absent == [absent |-> TRUE]

RawValues == {Absent, Null} \cup {Num(n) : n \in 0..MaxMetric}

\* the raw fields read through toNumber (SDK) or || (GraphQL)
PlainFields ==
    {"tvl", "volume_24h", "volume_7d", "volume_30d",
     "fees_24h", "fees_7d", "fees_30d", "feeRate", "apyBase", "apyReward"}

SourceFields == PlainFields \cup {"apr", "apy"}

\* the numeric fields of a normalized record
NumericFields == PlainFields \cup {"apr"}

\* the object literal holding the properties that `assign` sets
RawOf(assign) ==
    LET present == {f \in DOMAIN assign : assign[f] # Absent}
    IN [f \in present \cup {"id", "name", "dex"} |->
            IF f \in present THEN assign[f]
            ELSE IF f = "dex" THEN Str("Cetus") ELSE Str("p-1")]

RawInputs ==
    {RawOf([f \in SourceFields |->
                IF f = "apr" THEN a
                ELSE IF f = "apy" THEN y
                ELSE IF f = g THEN v ELSE r]) :
        a \in RawValues, y \in RawValues, v \in RawValues, r \in RawValues,
        g \in PlainFields}

NormIdle == rawIn = Null /\ normOut = Null

NormInit == rawIn \in RawInputs /\ normOut = Null

\* pools.map(normalizePool), for one pool
normalizeCall ==
    /\ rawIn # Null
    /\ normOut = Null
    /\ normOut' = normalizePool(layer, rawIn)
    /\ UNCHANGED rawIn

NormNext == normalizeCall

(***************************************************************************)
(* The per-DEX fetchers.  One fetcher is called once, in an environment    *)
(* that fixes what its request does (env.src), what each known pool's      *)
(* lookup or record is like (env.items) and what localStorage holds.       *)
(***************************************************************************)
MaxKnownPools == 2     \* pools in a fetcher's list of known pools

VARIABLES
    fetcher,    \* the fetcher called, "none" when there is none
    env,        \* [src, items, force]
    stored,     \* the fetcher's localStorage entry
    fres,       \* Null, then [settled, cached, calls, stored]
    poolPromises, \* Full Sail SDK: each known pool's fetchPoolById, [pc, ret]
    lookups     \* Full Sail SDK: the calls made on sdk.Pool, in order

lookupVars == <<poolPromises, lookups>>
fetchVars == <<fetcher, env, stored, fres, lookupVars>>

\* a thrown exception, as the value of the expression that throws
Throw == [throw |-> TRUE]

\* try { v } catch { h }
Catch(v, h) == IF v = Throw THEN h ELSE v

\* the settled promise of an async function whose body evaluates to v
Settle(v) == IF v = Throw THEN Rejected ELSE Fulfilled(v)

Arr(s) == [arr |-> s]
IsArray(x) == DOMAIN x = {"arr"}
NaN == [nan |-> TRUE]

\* .filter(Boolean) on a list of records and nulls
Compact(s) == SelectSeq(s, LAMBDA p : p # Null)

\* the record a parser returns for pool i
ParsedPool(i, tvl) == [id |-> i, tvl |-> Num(tvl)]

KnownPools == 1..MaxKnownPools

\* ---- GraphQL mode: fetch-cetus-graphql.js, part_008, part_011 ----
\* variant of queryPools: no try around executeQuery
queryPoolsNoCatch(e) ==
    IF e.src # "data" THEN Throw
    ELSE Arr(SelectSeq([i \in KnownPools |-> [id |-> i, kind |-> e.items[i]]],
                       LAMBDA n : n.kind # "missing"))

\* executeQuery throws, or resolves without data (reading data[...] throws),
\* or resolves with data; a known pool missing from the data is filtered out
queryPools(e) ==
    Catch(IF e.src # "data" THEN Throw
          ELSE Arr(SelectSeq([i \in KnownPools |-> [id |-> i, kind |-> e.items[i]]],
                             LAMBDA n : n.kind # "missing")),
          Arr(<<>>))

\* a node without json gives a zero record; BigInt() of a malformed amount
\* throws: the Cetus and Bluefin parsers return null, the Full Sail parser
\* returns a zero-valued record for the pool
parsePoolData(dex, node) ==
    Catch(CASE node.kind = "bad" -> Throw
            [] node.kind = "nojson" -> ParsedPool(node.id, 0)
            [] OTHER -> ParsedPool(node.id, 1),
          IF dex = "Full Sail" THEN ParsedPool(node.id, 0) ELSE Null)

fetchPoolsGraphQL(dex, e) ==
    LET nodes == queryPools(e) IN
    IF nodes = Throw THEN Throw
    ELSE Arr(Compact([i \in 1..Len(nodes.arr) |-> parsePoolData(dex, nodes.arr[i])]))

\* ---- localStorage entries ----
\* what was stored: a pool list fetched earlier
StoredData == Arr(<<ParsedPool(0, 1)>>)

StoredTimestamps == {0, TickMs, 3 * TickMs}

StoredObjects ==
    {[data |-> StoredData, timestamp |-> Num(ts)] : ts \in StoredTimestamps}
      \cup {[data |-> StoredData]}
      \cup {[timestamp |-> Num(ts)] : ts \in StoredTimestamps}

\* absent: getItem returns null; unreadable: localStorage is undefined or
\* getItem throws; invalid: JSON.parse throws; jsonnull: the text is "null"
StoredEntries ==
    {[kind |-> k] : k \in {"absent", "unreadable", "invalid", "jsonnull"}}
      \cup {[kind |-> "object", value |-> o] : o \in StoredObjects}

\* Date.now() - timestamp
Age(ts, t) == IF IsNum(ts) THEN Num(t - ts.num) ELSE NaN

\* variant: the stored entry is never used
getCachedDataNever(ls, t) == Null

\* fetch-cetus-sdk.js getCachedData
getCachedData(ls, t) ==
    Catch(CASE ls.kind = "absent" -> Null
            [] ls.kind \in {"unreadable", "invalid", "jsonnull"} -> Throw
            [] OTHER ->
                LET age == Age(Get(ls.value, "timestamp"), t) IN
                IF IsNum(age) /\ age.num > CACHE_TTL_MS THEN Null
                ELSE Get(ls.value, "data"),
          Null)

\* part_012 getCachedData(key)
getCachedDataByKey(ls, t) ==
    Catch(CASE ls.kind = "absent" -> Null
            [] ls.kind \in {"unreadable", "invalid", "jsonnull"} -> Throw
            [] OTHER ->
                LET age == Age(Get(ls.value, "timestamp"), t) IN
                IF IsNum(age) /\ age.num < CACHE_TTL_MS THEN Get(ls.value, "data")
                ELSE Null,
          Null)

\* setCachedData: nothing is written when localStorage cannot be used
setCachedData(ls, data, t) ==
    IF ls.kind = "unreadable" THEN ls
    ELSE [kind |-> "object", value |-> [data |-> data, timestamp |-> Num(t)]]

\* ---- SDK mode ----
\* fetch-cetus-sdk.js fetchCetusPools.  A lookup that throws and a record that
\* does not parse give null; a pool without liquidity is filtered out.  The
\* body of the try cannot throw, so its catch is not modelled.
fetchCetusPoolsSDK(e, ls, t) ==
    LET cachedPools == getCachedData(ls, t)
        parsed == [i \in KnownPools |->
                     IF e.items[i] \in {"throws", "bad"} THEN Null
                     ELSE ParsedPool(i, IF e.items[i] = "ok" THEN 1 ELSE 0)]
        pools == SelectSeq(Compact(parsed), LAMBDA q : q.tvl.num > 0)
    IN IF IsArray(cachedPools) /\ Len(cachedPools.arr) > 0
       THEN [settled |-> Fulfilled(cachedPools), cached |-> cachedPools,
             calls |-> 0, stored |-> ls]
       ELSE [settled |-> Fulfilled(Arr(pools)), cached |-> cachedPools,
             calls |-> MaxKnownPools,
             stored |-> IF Len(pools) > 0 THEN setCachedData(ls, Arr(pools), t) ELSE ls]

\* Bluefin Spot API: data.pools || data.data || data || []
fetchPoolsFromAPI(e) ==
    Catch(CASE e.src \in {"networkError", "notOk", "jsonNull"} -> Throw
            [] e.src = "notArray" -> [object |-> TRUE]
            [] e.src = "emptyArray" -> Arr(<<>>)
            [] OTHER -> Arr([i \in KnownPools |-> [id |-> i, kind |-> e.items[i]]]),
          Null)

\* fetchBluefinPools (SDK mode); the pools of the model have equal tvl, so
\* the sort keeps their order, and there are fewer than 50 of them
fetchBluefinPoolsSDK(e) ==
    LET apiPools == fetchPoolsFromAPI(e) IN
    Catch(IF IsArray(apiPools) /\ Len(apiPools.arr) > 0
          THEN Arr(SelectSeq(
                     Compact([i \in 1..Len(apiPools.arr) |->
                                IF apiPools.arr[i].kind = "bad" THEN Null
                                ELSE ParsedPool(apiPools.arr[i].id,
                                                IF apiPools.arr[i].kind = "ok" THEN 1 ELSE 0)]),
                     LAMBDA q : q.tvl.num > 0))
          ELSE Throw,
          Arr(<<>>))

\* fetch-fullsail-sdk.js fetchPoolById: backend first, then the chain
fetchPoolById(i, it) ==
    LET backend == Catch(IF it.backend = "throws" THEN Throw
                         ELSE IF it.backend = "stats" THEN ParsedPool(i, 1)
                         ELSE Undefined,
                         Undefined)
    IN IF backend # Undefined THEN backend
       ELSE Catch(CASE it.chain = "throws" -> Throw
                    [] it.chain = "null" -> Null
                    [] OTHER -> ParsedPool(i, 0),
                  Null)

fetchFullSailPoolsSDK(e) ==
    Catch(IF e.src = "initThrows" THEN Throw
          ELSE Arr(Compact([i \in KnownPools |-> fetchPoolById(i, e.items[i])])),
          Arr(<<>>))

\* ---- REST aggregator: part_010 fetchSuiPools ----
\* a null entry makes the filter callback throw; entries of other chains and
\* entries without tvl and apr are filtered out
fetchSuiPools(e) ==
    Catch(CASE e.src \in {"networkError", "notOk", "badJson", "nodata"} -> Throw
            [] \E i \in KnownPools : e.items[i] = "nullEntry" -> Throw
            [] OTHER ->
                Arr(SelectSeq([i \in KnownPools |->
                                  ParsedPool(i, IF e.items[i] = "ok" THEN 1 ELSE 0)],
                              LAMBDA q : e.items[q.id] = "ok")),
          Arr(<<>>))

\* ---- part_012 fetchAllPools ----
\* fetchPoolObjects: data?.objects?.nodes || []
fetchPoolObjects(e) ==
    Catch(CASE e.src = "throws" -> Throw
            [] e.src = "nodata" -> Arr(<<>>)
            [] OTHER -> Arr([i \in KnownPools |-> [id |-> i, kind |-> e.items[i]]]),
          Arr(<<>>))

\* the try inside the for loop: parseCetusPool returns null for a node
\* without json and throws on a malformed amount, which drops the exchange
fetchAllPools(e, ls, t) ==
    LET cached == IF e.force THEN Null ELSE getCachedDataByKey(ls, t)
        poolNodes == fetchPoolObjects(e).arr
        allPools ==
            Catch(IF \E i \in 1..Len(poolNodes) : poolNodes[i].kind = "bad" THEN Throw
                  ELSE Arr(Compact([i \in 1..Len(poolNodes) |->
                                       IF poolNodes[i].kind = "nojson" THEN Null
                                       ELSE ParsedPool(poolNodes[i].id, 1)])),
                  Arr(<<>>))
    IN IF ~e.force /\ IsArray(cached)
       THEN [settled |-> Fulfilled(cached), cached |-> cached, calls |-> 0, stored |-> ls]
       ELSE [settled |-> Fulfilled(allPools), cached |-> cached, calls |-> 1,
             stored |-> setCachedData(ls, allPools, t)]

\* ---- the call ----
GraphQLFetchers == {"cetus-graphql", "bluefin-graphql", "fullsail-graphql"}
PerDexFetchers ==
    GraphQLFetchers \cup {"cetus-sdk", "bluefin-sdk", "fullsail-sdk", "defillama"}
Fetchers == PerDexFetchers \cup {"all-pools"}
CachingFetchers == {"cetus-sdk", "all-pools"}

SrcKinds(f) ==
    CASE f \in GraphQLFetchers \cup {"all-pools"} -> {"throws", "nodata", "data"}
      [] f = "cetus-sdk" -> {"sdk"}
      [] f = "bluefin-sdk" -> {"networkError", "notOk", "jsonNull", "notArray", "emptyArray", "array"}
      [] f = "fullsail-sdk" -> {"initThrows", "ok"}
      [] OTHER -> {"networkError", "notOk", "badJson", "nodata", "array"}

ItemKinds(f) ==
    CASE f \in GraphQLFetchers -> {"missing", "nojson", "ok", "bad"}
      [] f = "all-pools" -> {"nojson", "ok", "bad"}
      [] f = "cetus-sdk" -> {"throws", "bad", "empty", "ok"}
      [] f = "bluefin-sdk" -> {"bad", "zero", "ok"}
      [] f = "fullsail-sdk" ->
            {[backend |-> b, chain |-> c] :
                b \in {"stats", "nostats", "throws"}, c \in {"pool", "null", "throws"}}
      [] OTHER -> {"nullEntry", "otherChain", "zero", "ok"}

Envs(f) ==
    {[src |-> x, items |-> its, force |-> fr] :
        x \in SrcKinds(f), its \in [KnownPools -> ItemKinds(f)],
        fr \in IF f = "all-pools" THEN BOOLEAN ELSE {FALSE}}

\* a fetcher without a cache: one request, localStorage untouched
Plain(v, ls) == [settled |-> Settle(v), cached |-> Null, calls |-> 1, stored |-> ls]

applyFetcher(f, e, ls, t) ==
    CASE f = "cetus-graphql" -> Plain(fetchPoolsGraphQL("Cetus", e), ls)
      [] f = "bluefin-graphql" -> Plain(fetchPoolsGraphQL("Bluefin", e), ls)
      [] f = "fullsail-graphql" -> Plain(fetchPoolsGraphQL("Full Sail", e), ls)
      [] f = "cetus-sdk" -> fetchCetusPoolsSDK(e, ls, t)
      [] f = "bluefin-sdk" -> Plain(fetchBluefinPoolsSDK(e), ls)
      [] f = "fullsail-sdk" -> Plain(fetchFullSailPoolsSDK(e), ls)
      [] f = "defillama" -> Plain(fetchSuiPools(e), ls)
      [] OTHER -> fetchAllPools(e, ls, t)

\* ---- fetch-fullsail-sdk.js, one lookup at a time ----
GetById(i) == [method |-> "getById", id |-> i]
GetByIdFromChain(i) == [method |-> "getByIdFromChain", id |-> i]

LookupIdle ==
    /\ poolPromises = [i \in KnownPools |-> [pc |-> "idle", ret |-> Undefined]]
    /\ lookups = <<>>

\* fetchFullSailPools up to its await: getSDK(), then fetchPoolById of every
\* known pool runs up to its first await, the backend lookup
fetchFullSailPoolsCall ==
    /\ fetcher = "fullsail-sdk"
    /\ fres = Null
    /\ \A i \in KnownPools : poolPromises[i].pc = "idle"
    /\ IF env.src = "initThrows"
       THEN /\ fres' = Plain(Arr(<<>>), stored)
            /\ UNCHANGED lookupVars
       ELSE /\ poolPromises' = [i \in KnownPools |-> [pc |-> "backend", ret |-> Undefined]]
            /\ lookups' = lookups \o [i \in KnownPools |-> GetById(i)]
            /\ UNCHANGED fres
    /\ UNCHANGED <<fetcher, env, stored>>

\* variant of the backend's settling: the chain is looked up whatever the
\* backend returned
backendSettlesChainAlways(i) ==
    /\ poolPromises[i].pc = "backend"
    /\ poolPromises' = [poolPromises EXCEPT ![i].pc = "chain"]
    /\ lookups' = Append(lookups, GetByIdFromChain(i))
    /\ UNCHANGED <<fetcher, env, stored, fres>>

\* sdk.Pool.getById of pool i settles: a record with dinamic_stats is
\* returned, anything else and a throw go on to the chain lookup
backendSettles(i) ==
    /\ poolPromises[i].pc = "backend"
    /\ IF env.items[i].backend = "stats"
       THEN /\ poolPromises' = [poolPromises EXCEPT
                                  ![i] = [pc |-> "settled", ret |-> ParsedPool(i, 1)]]
            /\ UNCHANGED lookups
       ELSE /\ poolPromises' = [poolPromises EXCEPT ![i].pc = "chain"]
            /\ lookups' = Append(lookups, GetByIdFromChain(i))
    /\ UNCHANGED <<fetcher, env, stored, fres>>

\* sdk.Pool.getByIdFromChain of pool i settles
chainSettles(i) ==
    /\ poolPromises[i].pc = "chain"
    /\ poolPromises' =
          [poolPromises EXCEPT
             ![i] = [pc |-> "settled",
                     ret |-> Catch(CASE env.items[i].chain = "throws" -> Throw
                                     [] env.items[i].chain = "null" -> Null
                                     [] OTHER -> ParsedPool(i, 0),
                                   Null)]]
    /\ UNCHANGED <<fetcher, env, stored, fres, lookups>>

\* Promise.all resolves; pools.filter(Boolean) is returned
fetchFullSailPoolsReturns ==
    /\ fres = Null
    /\ \A i \in KnownPools : poolPromises[i].pc = "settled"
    /\ fres' = Plain(Arr(Compact([i \in KnownPools |-> poolPromises[i].ret])), stored)
    /\ UNCHANGED <<fetcher, env, stored, lookupVars>>

LookupInit ==
    /\ fetcher = "fullsail-sdk"
    /\ env \in Envs(fetcher)
    /\ stored = [kind |-> "absent"]
    /\ fres = Null
    /\ LookupIdle

LookupNext ==
    \/ fetchFullSailPoolsCall
    \/ \E i \in KnownPools : backendSettles(i)
    \/ \E i \in KnownPools : chainSettles(i)
    \/ fetchFullSailPoolsReturns

FetchIdle ==
    /\ fetcher = "none"
    /\ env = Null
    /\ stored = [kind |-> "absent"]
    /\ fres = Null
    /\ LookupIdle

FetchInit ==
    /\ fetcher \in Fetchers
    /\ env \in Envs(fetcher)
    /\ stored \in IF fetcher \in CachingFetchers THEN StoredEntries ELSE {[kind |-> "absent"]}
    /\ fres = Null
    /\ LookupIdle

fetcherCall ==
    /\ fetcher # "none"
    /\ fres = Null
    /\ fres' = applyFetcher(fetcher, env, stored, now)
    /\ stored' = fres'.stored
    /\ UNCHANGED <<fetcher, env, lookupVars>>

FetchNext == fetcherCall

(***************************************************************************)
(* The facade: fetchPoolData and clearCache of data-source.js, with the    *)
(* module's own cache.  fmode is the configured mode; it is "none" in the  *)
(* behaviours that are about another module.                               *)
(***************************************************************************)
VARIABLES
    fmode,      \* DATA_SOURCE_CONFIG.mode
    fcache,     \* the module-level cache {data, timestamp}
    fcall       \* the activation of fetchPoolData

facadeVars == <<fmode, fcache, fcall>>

DATA_SOURCE_MODES == {"defillama", "graphql"}

FacadeIdleCall ==
    [pc |-> "idle", forceRefresh |-> FALSE, fromCache |-> FALSE,
     delegated |-> 0, data |-> Undefined, ret |-> Undefined]

normalizeDefiLlamaPool(pool) ==
    [id |-> Or(Get(pool, "id"), Get(pool, "pool")),
     name |-> Or(Or(Get(pool, "name"), Get(pool, "symbol")), Str("Unknown")),
     dex |-> Get(pool, "dex"),
     tvl |-> Or(Get(pool, "tvl"), Num(0)),
     volume_24h |-> Or(Get(pool, "volume_24h"), Num(0)),
     volume_7d |-> Or(Get(pool, "volume_7d"), Num(0)),
     volume_30d |-> Or(Get(pool, "volume_30d"), Num(0)),
     fees_24h |-> Or(Get(pool, "fees_24h"), Num(0)),
     fees_7d |-> Or(Get(pool, "fees_7d"), Num(0)),
     fees_30d |-> Or(Get(pool, "fees_30d"), Num(0)),
     feeRate |-> Or(Get(pool, "fee_vol_ratio"), Num(DefaultFeeRate)),
     apr |-> Or(Or(Get(pool, "apr"), Get(pool, "apy")), Num(0)),
     apyBase |-> Or(Get(pool, "apyBase"), Num(0)),
     apyReward |-> Or(Get(pool, "apyReward"), Num(0)),
     stablecoin |-> Or(Get(pool, "stablecoin"), Bool(FALSE)),
     source |-> Str("defillama")]

\* apr falls back to feeRate * 365 * 100, here in the units of feeRate
normalizeGraphQLPool(pool) ==
    [id |-> Get(pool, "id"),
     name |-> Or(Get(pool, "name"), Str("Unknown")),
     dex |-> Get(pool, "dex"),
     tvl |-> Or(Get(pool, "tvl"), Num(0)),
     volume_24h |-> Or(Get(pool, "volume_24h"), Num(0)),
     volume_7d |-> Or(Get(pool, "volume_7d"), Num(0)),
     volume_30d |-> Or(Get(pool, "volume_30d"), Num(0)),
     fees_24h |-> Or(Get(pool, "fees_24h"), Num(0)),
     fees_7d |-> Or(Get(pool, "fees_7d"), Num(0)),
     fees_30d |-> Or(Get(pool, "fees_30d"), Num(0)),
     feeRate |-> Or(Get(pool, "feeRate"), Num(0)),
     apr |-> Or(Get(pool, "apr"),
                IF Truthy(Get(pool, "feeRate"))
                THEN Num(Get(pool, "feeRate").num * 365 * 100) ELSE Num(0)),
     isPaused |-> Or(Get(pool, "isPaused"), Bool(FALSE)),
     swaps_24h |-> Or(Get(pool, "swaps_24h"), Num(0)),
     source |-> Str("graphql")]

\* data-source.js calculateDexStats: the pool field each total accumulates
StatSource ==
    [totalTVL |-> "tvl", volume24h |-> "volume_24h", volume7d |-> "volume_7d",
     volume30d |-> "volume_30d", fees24h |-> "fees_24h", fees7d |-> "fees_7d",
     fees30d |-> "fees_30d"]

RECURSIVE facadeDexStatsFrom(_, _, _)
facadeDexStatsFrom(pools, i, stats) ==
    IF i > Len(pools) THEN stats
    ELSE LET k == Key(pools[i].dex)
             s == IF k \in DOMAIN stats THEN stats[k]
                  ELSE [f \in DOMAIN StatSource \cup {"poolCount"} |-> 0]
             s2 == [f \in DOMAIN s |->
                      IF f = "poolCount" THEN s[f] + 1
                      ELSE s[f] + OrZero(pools[i][StatSource[f]])]
         IN facadeDexStatsFrom(pools, i + 1,
                [x \in DOMAIN stats \cup {k} |-> IF x = k THEN s2 ELSE stats[x]])

\* the summary of a pre-processed dex-data.json, here one that does not
\* agree with the file's pools
UpstreamSummary ==
    [totalTVL |-> 0, totalVolume24h |-> 0, totalFees24h |-> 0,
     totalPools |-> MaxPoolsPerDex + 1]

\* the parsed dex-data.json: pools and summary may each be missing
JsonBodies ==
    {[pools |-> l, summary |-> UpstreamSummary] : l \in PoolLists("Bluefin")}
      \cup {[pools |-> l] : l \in PoolLists("Bluefin")}
      \cup {[summary |-> UpstreamSummary]}

\* what the awaited source does: fetchSuiPools resolves to a list; the fetch
\* of /dex-data.json fails, answers with a non-OK status, has a body that
\* is not JSON, or has a JSON body
Payloads(mode) ==
    IF mode = "defillama"
    THEN {[kind |-> "pools", pools |-> l] : l \in PoolLists("Full Sail")}
    ELSE {[kind |-> k] : k \in {"networkError", "notOk", "badJson"}}
           \cup {[kind |-> "json", data |-> d] : d \in JsonBodies}

fetchDefiLlamaData(p, t) ==
    LET normalized == [i \in 1..Len(p.pools) |-> normalizeDefiLlamaPool(p.pools[i])]
    IN [pools |-> normalized,
        dexStats |-> facadeDexStatsFrom(normalized, 1, NoStats),
        summary |-> NoStats,
        lastUpdated |-> t]

fetchGraphQLData(p, t) ==
    IF p.kind # "json" THEN Throw
    ELSE LET raw == IF "pools" \in DOMAIN p.data THEN p.data.pools ELSE <<>>
             pools == [i \in 1..Len(raw) |-> normalizeGraphQLPool(raw[i])]
         IN [pools |-> pools,
             summary |-> IF "summary" \in DOMAIN p.data THEN p.data.summary ELSE NoStats,
             dexStats |-> facadeDexStatsFrom(pools, 1, NoStats),
             lastUpdated |-> t]

\* variant of the spread: the computed fields win over the upstream ones
spreadSummaryComputedWins(computed, upstream) ==
    [k \in DOMAIN computed \cup DOMAIN upstream |->
        IF k \in DOMAIN computed THEN computed[k] ELSE upstream[k]]

\* { totalTVL, totalVolume24h, totalPools, ...data.summary }
spreadSummary(computed, upstream) ==
    [k \in DOMAIN computed \cup DOMAIN upstream |->
        IF k \in DOMAIN upstream THEN upstream[k] ELSE computed[k]]

\* fetchPoolData after the await: { ...data, summary, mode }
facadeResult(mode, data) ==
    [pools |-> data.pools,
     dexStats |-> data.dexStats,
     summary |-> spreadSummary(
                    [totalTVL |-> reduceSum(data.pools, "tvl", 1),
                     totalVolume24h |-> reduceSum(data.pools, "volume_24h", 1),
                     totalPools |-> Len(data.pools)],
                    data.summary),
     lastUpdated |-> data.lastUpdated,
     mode |-> mode]

\* variant of isCacheValid: caching switched off
isCacheValidNever(c, t) == FALSE

\* cacheEnabled is the constant true of config.js
isCacheValid(c, t) ==
    TRUE /\ c.timestamp > 0 /\ (t - c.timestamp) < CACHE_TTL_MS

FacadeIdle ==
    /\ fmode = "none"
    /\ fcache = EmptyCache
    /\ fcall = FacadeIdleCall

FacadeInit ==
    /\ fmode \in DATA_SOURCE_MODES
    /\ fcache = EmptyCache
    /\ fcall = FacadeIdleCall

\* fetchPoolData up to the await
facadeFetchPoolData(forceRefresh) ==
    /\ fmode \in DATA_SOURCE_MODES
    /\ fcall.pc = "idle"
    /\ IF ~forceRefresh /\ isCacheValid(fcache, now)
       THEN fcall' = [fcall EXCEPT !.pc = "done", !.forceRefresh = forceRefresh,
                                   !.fromCache = TRUE,
                                   !.ret = [fcache.data EXCEPT !.mode = fmode]]
       ELSE fcall' = [fcall EXCEPT !.pc = "await", !.forceRefresh = forceRefresh,
                                   !.delegated = @ + 1]
    /\ UNCHANGED <<fmode, fcache>>

\* variant of the completion: a rejection empties the cache
facadeSourceSettlesClearing(p) ==
    /\ fcall.pc = "await"
    /\ LET data == IF fmode = "defillama" THEN fetchDefiLlamaData(p, now)
                   ELSE fetchGraphQLData(p, now)
       IN IF data = Throw
          THEN /\ fcall' = [fcall EXCEPT !.pc = "rejected", !.data = p]
               /\ fcache' = EmptyCache
          ELSE /\ fcall' = [fcall EXCEPT !.pc = "done", !.data = p,
                                         !.ret = facadeResult(fmode, data)]
               /\ fcache' = [data |-> facadeResult(fmode, data), timestamp |-> now]
    /\ UNCHANGED fmode

\* the awaited source settles; on a rejection fetchPoolData rejects, else
\* the rest of the function runs: summary, result, cache, return
facadeSourceSettles(p) ==
    /\ fcall.pc = "await"
    /\ LET data == IF fmode = "defillama" THEN fetchDefiLlamaData(p, now)
                   ELSE fetchGraphQLData(p, now)
       IN IF data = Throw
          THEN /\ fcall' = [fcall EXCEPT !.pc = "rejected", !.data = p]
               /\ UNCHANGED fcache
          ELSE /\ fcall' = [fcall EXCEPT !.pc = "done", !.data = p,
                                         !.ret = facadeResult(fmode, data)]
               /\ fcache' = [data |-> facadeResult(fmode, data), timestamp |-> now]
    /\ UNCHANGED fmode

\* the caller's await of the call ends
facadeCallerTakesResult ==
    /\ fcall.pc \in {"done", "rejected"}
    /\ fcall' = FacadeIdleCall
    /\ UNCHANGED <<fmode, fcache>>

\* variant of the facade's clear: only the data is reset
facadeClearCacheDataOnly ==
    /\ fmode \in DATA_SOURCE_MODES
    /\ fcache' = [fcache EXCEPT !.data = Null]
    /\ UNCHANGED <<fmode, fcall>>

\* data-source.js clearCache
facadeClearCache ==
    /\ fmode \in DATA_SOURCE_MODES
    /\ fcache' = EmptyCache
    /\ UNCHANGED <<fmode, fcall>>

FacadeNext ==
    \/ \E f \in BOOLEAN : facadeFetchPoolData(f) /\ UNCHANGED aggVars
    \/ \E p \in Payloads(fmode) : facadeSourceSettles(p) /\ UNCHANGED aggVars
    \/ facadeCallerTakesResult /\ UNCHANGED aggVars
    \/ facadeClearCache /\ UNCHANGED aggVars
    \/ fmode \in DATA_SOURCE_MODES /\ Tick /\ UNCHANGED facadeVars

(***************************************************************************)
(* Overlapping calls of the facade: a second activation of fetchPoolData,  *)
(* started while the first one awaits its source.                          *)
(***************************************************************************)
VARIABLES
    fcall2      \* the second activation of fetchPoolData

overlapVars == <<fcall2>>

OverlapIdle == fcall2 = FacadeIdleCall

\* fetchPoolData up to the await, called while the first call is in flight
facadeOverlapCall(forceRefresh) ==
    /\ fmode \in DATA_SOURCE_MODES
    /\ fcall.pc = "await"
    /\ fcall2.pc = "idle"
    /\ IF ~forceRefresh /\ isCacheValid(fcache, now)
       THEN fcall2' = [fcall2 EXCEPT !.pc = "done", !.forceRefresh = forceRefresh,
                                     !.fromCache = TRUE,
                                     !.ret = [fcache.data EXCEPT !.mode = fmode]]
       ELSE fcall2' = [fcall2 EXCEPT !.pc = "await", !.forceRefresh = forceRefresh,
                                     !.delegated = @ + 1]
    /\ UNCHANGED <<fmode, fcache, fcall>>

\* the source awaited by the second call settles
facadeOverlapSettles(p) ==
    /\ fcall2.pc = "await"
    /\ LET data == IF fmode = "defillama" THEN fetchDefiLlamaData(p, now)
                   ELSE fetchGraphQLData(p, now)
       IN IF data = Throw
          THEN /\ fcall2' = [fcall2 EXCEPT !.pc = "rejected", !.data = p]
               /\ UNCHANGED fcache
          ELSE /\ fcall2' = [fcall2 EXCEPT !.pc = "done", !.data = p,
                                           !.ret = facadeResult(fmode, data)]
               /\ fcache' = [data |-> facadeResult(fmode, data), timestamp |-> now]
    /\ UNCHANGED <<fmode, fcall>>

\* the source's answers while two calls are in flight: the file as deployed,
\* or a failed request
OverlapPayloads(mode) ==
    {q \in Payloads(mode) :
        q.kind = "networkError" \/ (q.kind = "pools" /\ Len(q.pools) = 1)
          \/ (q.kind = "json" /\ DOMAIN q.data = {"pools", "summary"} /\ Len(q.data.pools) = 1)}

FacadeOverlapNext ==
    \/ FacadeNext /\ UNCHANGED overlapVars
    \/ \E f \in BOOLEAN : facadeOverlapCall(f) /\ UNCHANGED aggVars
    \/ \E q \in OverlapPayloads(fmode) : facadeOverlapSettles(q) /\ UNCHANGED aggVars

(***************************************************************************)
(* The query client: queryObjectsByIds (graphql-client.js).  A query is    *)
(* the list of its aliased sub-queries; executeQuery is one await whose    *)
(* outcome and number of fetch() calls are chosen when it settles.         *)
(***************************************************************************)
MaxIds == 3            \* most identifiers in one call

VARIABLES
    bpc,          \* "idle", "await", "returned" or "threw"
    bIds,         \* the argument objectIds
    bExec,        \* the queries handed to executeQuery, in order
    bFetches,     \* number of calls of fetch() on behalf of this call
    bret          \* the value the promise settles with

batchVars == <<bpc, bIds, bExec, bFetches, bret>>

Addresses == {"0x111", "0x222"}

RECURSIVE SeqsUpTo(_, _)
SeqsUpTo(S, n) ==
    IF n = 0 THEN {<<>>}
    ELSE LET shorter == SeqsUpTo(S, n - 1) IN
           shorter \cup {Append(q, x) : q \in {r \in shorter : Len(r) = n - 1}, x \in S}

IdLists == SeqsUpTo(Addresses, MaxIds)

\* obj${i}: object(address: "${id}") { ... }
subQuery(i, id) == [alias |-> i, address |-> id]

\* objectIds.map((id, i) => ...).join: sub-query i (from 0) is for objectIds[i]
objectQueries(ids) == [k \in 1..Len(ids) |-> subQuery(k - 1, ids[k])]

\* variant: one request per identifier
executeQueryArgsPerId(ids) == [k \in 1..Len(ids) |-> <<subQuery(0, ids[k])>>]

\* the arguments of the executeQuery calls made for ids
executeQueryArgs(ids) == <<objectQueries(ids)>>

\* the object the endpoint holds at an address
ObjectAt(id) == [address |-> id, version |-> 1]

\* what executeQuery can settle with: a rejection, a response without data,
\* or data in which each alias is an object, null or missing
BatchOutcomes(ids) ==
    {[kind |-> "threw"], [kind |-> "nodata"]}
      \cup {[kind |-> "data", data |-> d] :
              d \in {f \in [0..(Len(ids) - 1) -> {"object", "null", "missing"}] : TRUE}}

\* data[`obj${i}`]
aliasValue(d, i, ids) ==
    CASE d[i] = "object" -> ObjectAt(ids[i + 1])
      [] d[i] = "null" -> Null
      [] OTHER -> Undefined

\* objectIds.map((_, i) => data[`obj${i}`]).filter(Boolean)
batchResult(d, ids) ==
    Arr(SelectSeq([k \in 1..Len(ids) |-> aliasValue(d, k - 1, ids)],
                  LAMBDA v : v # Null /\ v # Undefined))

\* fetch() calls of one executeQuery: all attempts when it throws
FetchCounts(out) ==
    IF out.kind = "threw" THEN {MAX_RETRIES} ELSE 1..MAX_RETRIES

BatchIdle ==
    /\ bpc = "idle"
    /\ bIds = <<>>
    /\ bExec = <<>>
    /\ bFetches = 0
    /\ bret = Undefined

\* queryObjectsByIds(ids) up to its await
queryObjectsByIdsCall(ids) ==
    /\ bpc = "idle"
    /\ bIds' = ids
    /\ IF Len(ids) = 0
       THEN /\ bpc' = "returned"
            /\ bret' = Arr(<<>>)
            /\ UNCHANGED bExec
       ELSE /\ bpc' = "await"
            /\ bExec' = bExec \o executeQueryArgs(ids)
            /\ UNCHANGED bret
    /\ UNCHANGED bFetches

\* executeQuery settles after k calls of fetch(); reading an alias of a
\* missing data object is a TypeError
executeQuerySettles(out, k) ==
    /\ bpc = "await"
    /\ bFetches' = bFetches + k
    /\ IF out.kind = "data"
       THEN /\ bpc' = "returned"
            /\ bret' = batchResult(out.data, bIds)
       ELSE /\ bpc' = "threw"
            /\ bret' = Throw
    /\ UNCHANGED <<bIds, bExec>>

BatchNext ==
    \/ \E ids \in IdLists : queryObjectsByIdsCall(ids)
    \/ \E out \in BatchOutcomes(bIds) : \E k \in FetchCounts(out) :
          executeQuerySettles(out, k)

\* the query client as a whole
clientVars == <<queryVars, batchVars>>
ClientIdle == QueryInit /\ BatchIdle

(***************************************************************************)
(* SDK mode end to end: fetchSDKPoolData with the Cetus fetcher reading    *)
(* and writing its localStorage entry (the variable stored).  fres is the  *)
(* outcome of the last run of fetchCetusPools.                             *)
(***************************************************************************)
\* the record of the Cetus fetcher's list as the aggregation layer reads it
cetusRawPool(q) ==
    [RawPool("Cetus", 1) EXCEPT !.id = Str(PoolIds["Cetus"][q.id + 1]), !.tvl = q.tvl]

cetusRawList(a) == [k \in 1..Len(a.arr) |-> cetusRawPool(a.arr[k])]

\* sdk.Pool.getPool for each known pool: it throws or gives a pool
SdkEnvs == {e \in Envs("cetus-sdk") : \A i \in KnownPools : e.items[i] \in {"throws", "ok"}}

\* the entry as the browser holds it when the page loads: none, or one that
\* an earlier visit stored
LoadedEntries ==
    {[kind |-> "absent"],
     [kind |-> "object", value |-> [data |-> StoredData, timestamp |-> Num(TickMs)]]}

SdkInit ==
    /\ layer = "SDK" /\ now = TickMs /\ cache = EmptyCache
    /\ calls = [c \in CallIds |-> IdleCall]
    /\ fetcher = "cetus-sdk" /\ env = Null /\ fres = Null
    /\ stored \in LoadedEntries
    /\ LookupIdle

\* the promise of fetchCetusPools() of call c settles
cetusSettles(c, e) ==
    /\ calls[c].pc = "await"
    /\ calls[c].results["Cetus"] = Pending
    /\ fres' = fetchCetusPoolsSDK(e, stored, now)
    /\ stored' = fres'.stored
    /\ calls' = [calls EXCEPT
                   ![c].results["Cetus"] = Fulfilled(cetusRawList(fres'.settled.value))]
    /\ UNCHANGED <<layer, now, cache, fetcher, env, lookupVars>>

SdkNext ==
    \/ \E f \in BOOLEAN : fetchPoolDataCall(1, f) /\ UNCHANGED fetchVars
    \/ \E e \in SdkEnvs : cetusSettles(1, e)
    \/ \E d \in DexSet \ {"Cetus"} : \E ev \in RaceEvents(layer, d) :
          fetcherSettles(1, d, ev) /\ UNCHANGED fetchVars
    \/ fetchPoolDataResume(1) /\ UNCHANGED fetchVars
    \/ callerTakesResult(1) /\ UNCHANGED fetchVars
    \/ clearCache /\ UNCHANGED fetchVars
    \/ Tick /\ UNCHANGED fetchVars

(***************************************************************************)
(* Mode selection: getMode (config.js) and getInitialDataSource (App.jsx). *)
(* The inputs are the environment variable and the URL's source parameter. *)
(***************************************************************************)
VARIABLES
    envMode,      \* import.meta.env?.VITE_DATA_SOURCE_MODE
    urlSource,    \* params.get('source'), or NoWindow outside a browser
    modeOut,      \* what getMode returned
    sourceOut     \* what getInitialDataSource returned

configVars == <<envMode, urlSource, modeOut, sourceOut>>

NotCalled == [notCalled |-> TRUE]
NoWindow == [noWindow |-> TRUE]

ModeTexts == {"", "defillama", "graphql", "sdk", "DEFILLAMA", "GraphQL", "local"}

\* the variable is unset, or set to a text
EnvModes == {Undefined} \cup {Str(x) : x \in ModeTexts}

\* typeof window === 'undefined', the parameter is absent, or it has a text
UrlSources == {NoWindow, Null} \cup {Str(x) : x \in ModeTexts}

\* ['sdk', 'graphql', 'defillama']
URL_SOURCES == {"sdk", "graphql", "defillama"}

\* variant: any non-empty text is taken as the mode
getModeUnchecked(e) == IF Truthy(e) THEN e ELSE Str("defillama")

getMode(e) ==
    IF Truthy(e) /\ e \in {Str(m) : m \in DATA_SOURCE_MODES}
    THEN e
    ELSE Str("defillama")

getInitialDataSource(u) ==
    IF u # NoWindow /\ Truthy(u) /\ u \in {Str(m) : m \in URL_SOURCES}
    THEN u
    ELSE Str("defillama")

ConfigIdle ==
    /\ envMode = Undefined
    /\ urlSource = NoWindow
    /\ modeOut = NotCalled
    /\ sourceOut = NotCalled

ConfigInit ==
    /\ envMode \in EnvModes
    /\ urlSource \in UrlSources
    /\ modeOut = NotCalled
    /\ sourceOut = NotCalled

\* config.js is loaded: DATA_SOURCE_CONFIG.mode = getMode()
getModeCall ==
    /\ modeOut = NotCalled
    /\ modeOut' = getMode(envMode)
    /\ UNCHANGED <<envMode, urlSource, sourceOut>>

\* App mounts: useState(getInitialDataSource)
getInitialDataSourceCall ==
    /\ sourceOut = NotCalled
    /\ sourceOut' = getInitialDataSource(urlSource)
    /\ UNCHANGED <<envMode, urlSource, modeOut>>

ConfigNext ==
    \/ getModeCall
    \/ getInitialDataSourceCall

(***************************************************************************)
(* The pre-processing script: processPool (scripts/process-dex-data).      *)
(* Reserves are whole tokens (raw amounts are multiples of 10^9) and money *)
(* is counted in tenths of a dollar, so that the default SUI price of 4.5  *)
(* is the integer 45.  The token symbols are what extractTokenPair found   *)
(* in the pool's type.                                                     *)
(***************************************************************************)
MaxReserve == 2        \* largest reserve, in whole tokens
RawUnit == 1000000000
DefaultSuiPriceTenths == 45
StableScale == 1000

VARIABLES
    poolIn,       \* the node and the prices given to processPool
    poolOut       \* what processPool returned

scriptVars == <<poolIn, poolOut>>

stablecoins == {"USDC", "USDT", "DAI", "AUSD"}
Symbols == {"SUI", "USDC", "USDT", "CETUS"}

\* tokenPair.split('/'): 'Unknown' has one part
TokenLists == {<<"Unknown">>} \cup {<<a, b>> : a \in Symbols, b \in Symbols}

\* which reserve fields the pool's json carries
Layouts == {"coin_a", "reserve_a", "reserve_x", "none"}

RawAmounts == {k * RawUnit : k \in 0..MaxReserve}

\* prices.sui?.usd in tenths: missing, zero or a price
SuiPrices == {Undefined, Num(0), Num(20), Num(DefaultSuiPriceTenths)}

NoPoolData == [hasData |-> FALSE]

PoolInputs ==
    {NoPoolData}
      \cup {[hasData |-> TRUE, layout |-> l, rawA |-> a, rawB |-> b, tokens |-> t, price |-> p] :
              l \in Layouts \ {"none"}, a \in RawAmounts, b \in RawAmounts,
              t \in TokenLists, p \in SuiPrices}
      \cup {[hasData |-> TRUE, layout |-> "none", rawA |-> 0, rawB |-> 0, tokens |-> t, price |-> p] :
              t \in TokenLists, p \in SuiPrices}

\* Number(BigInt(raw || 0)) / 1e9; no reserve field of a known layout gives 0
reserveOf(in, raw) == IF in.layout = "none" THEN 0 ELSE raw \div RawUnit

\* prices.sui?.usd || 4.5
suiPriceOf(p) == IF Truthy(p) THEN p.num ELSE DefaultSuiPriceTenths

\* tokens[0], tokens[1]
tokenAt(t, k) == IF k <= Len(t) THEN Str(t[k]) ELSE Undefined

IsStable(tok) == tok \in {Str(x) : x \in stablecoins}

hasSui(tokenA, tokenB) == tokenA = Str("SUI") \/ tokenB = Str("SUI")

\* variant: both tokens must be stablecoins
isStablePairBoth(tokenA, tokenB) == IsStable(tokenA) /\ IsStable(tokenB)

isStablePair(tokenA, tokenB) == IsStable(tokenA) \/ IsStable(tokenB)

Max2(a, b) == IF a >= b THEN a ELSE b

\* the TVL estimate, in tenths of a dollar
estimateTvl(tokenA, tokenB, reserveA, reserveB, suiPrice) ==
    IF hasSui(tokenA, tokenB)
    THEN (IF tokenA = Str("SUI") THEN reserveA ELSE reserveB) * suiPrice * 2
    ELSE IF isStablePair(tokenA, tokenB)
    THEN (IF IsStable(tokenA) THEN reserveA * StableScale ELSE reserveB * StableScale) * 2 * 10
    ELSE Max2(reserveA, reserveB) * suiPrice * 2

\* processPool: null without pool data or when the estimate is not positive
processPool(in) ==
    IF ~in.hasData THEN Null
    ELSE LET tokenA == tokenAt(in.tokens, 1)
             tokenB == tokenAt(in.tokens, 2)
             tvl == estimateTvl(tokenA, tokenB, reserveOf(in, in.rawA),
                                reserveOf(in, in.rawB), suiPriceOf(in.price))
         IN IF tvl <= 0 THEN Null ELSE [name |-> in.tokens, tvl |-> tvl]

ScriptIdle ==
    /\ poolIn = NoPoolData
    /\ poolOut = NotCalled

ScriptInit ==
    /\ poolIn \in PoolInputs
    /\ poolOut = NotCalled

processPoolCall ==
    /\ poolOut = NotCalled
    /\ poolOut' = processPool(poolIn)
    /\ UNCHANGED poolIn

ScriptNext == processPoolCall

(***************************************************************************)
(* Per-pool parsing in SDK mode: parsePool of the Bluefin fetcher          *)
(* (fetch-cetus-graphql.js) and of the Cetus fetcher (fetch-cetus-sdk.js). *)
(* The result records hold the values read through alias chains.  Fee      *)
(* rates of Bluefin are in units of 1/10000, those of Cetus in parts per   *)
(* million, liquidity in units of 10^9.                                    *)
(***************************************************************************)
CetusDefaultFeePpm == 3000

VARIABLES
    apiIn,        \* the raw pool (and the known-pool metadata) given to parsePool
    parsed        \* what parsePool returned

parseVars == <<apiIn, parsed>>

\* the aliases read for each value of a Bluefin pool, in the order of the || chain
BluefinAliases ==
    [id |-> <<"poolAddress", "pool_address", "address", "id">>,
     tvl |-> <<"tvl", "totalValueLocked", "liquidity", "tvlUsd">>,
     volume_24h |-> <<"volume24h", "volume_24h", "dailyVolume">>,
     fees_24h |-> <<"fees24h", "fees_24h", "dailyFees">>,
     feeRate |-> <<"feeRate", "fee_rate", "swapFee">>,
     apr |-> <<"apr", "apy">>,
     volume_7d |-> <<"volume7d", "volume_7d">>,
     volume_30d |-> <<"volume30d", "volume_30d">>]

\* the aliases read for each value of a Cetus pool
CetusAliases ==
    [id |-> <<"poolAddress", "pool_address", "address">>,
     liquidity |-> <<"liquidity", "current_liquidity">>,
     sqrtPrice |-> <<"current_sqrt_price", "sqrtPrice">>,
     feeRate |-> <<"fee_rate", "feeRate">>]

AddrNames == <<"addr-1", "addr-2", "addr-3", "addr-4">>

\* the value that tells alias k of a chain from the other aliases
OwnValue(key, k) == IF key = "id" THEN Str(AddrNames[k]) ELSE Num(k)

\* a value that is set but falsy
FalsyValue(key) == IF key = "id" THEN Str("") ELSE Num(0)

\* what alias k of the chain of key can hold
AliasValues(key, k) == {Absent, Null, FalsyValue(key), OwnValue(key, k)}

AllAliasValues ==
    UNION {AliasValues(key, k) : key \in {"id", "tvl"}, k \in 1..4}

ChainAssignments(table, c) ==
    {v \in [1..Len(table[c]) -> AllAliasValues] :
        \A k \in 1..Len(table[c]) : v[k] \in AliasValues(c, k)}

\* the object literal holding the properties that `assign` sets
ObjectOf(assign) ==
    [f \in {g \in DOMAIN assign : assign[g] # Absent} |-> assign[f]]

FieldsOf(table) ==
    UNION {{table[key][k] : k \in 1..Len(table[key])} : key \in DOMAIN table}

\* the chain and the position of field f in an alias table
KeyOf(table, f) ==
    CHOOSE key \in DOMAIN table : \E k \in 1..Len(table[key]) : table[key][k] = f
PosOf(table, f) ==
    CHOOSE k \in 1..Len(table[KeyOf(table, f)]) : table[KeyOf(table, f)][k] = f

\* The raw pools of an alias table: the aliases of one chain vary freely, the
\* aliases of the other chains are all absent, all falsy or all set.
RestKinds == {"absent", "falsy", "set"}

ApiPools(table) ==
    UNION {{ObjectOf([f \in FieldsOf(table) |->
                        IF KeyOf(table, f) = c THEN v[PosOf(table, f)]
                        ELSE CASE r = "absent" -> Absent
                               [] r = "falsy" -> FalsyValue(KeyOf(table, f))
                               [] OTHER -> OwnValue(KeyOf(table, f), PosOf(table, f))]) :
              v \in ChainAssignments(table, c), r \in RestKinds} :
           c \in DOMAIN table}

\* knownPool: the metadata of the known-pools list, or none
KnownPoolMeta == {Undefined, [id |-> Str("known-1")]}

ParseInputs ==
    {[dex |-> "Bluefin", pool |-> q, known |-> Undefined] : q \in ApiPools(BluefinAliases)}
      \cup {[dex |-> "Cetus", pool |-> q, known |-> m] :
               q \in ApiPools(CetusAliases) \cup {Undefined}, m \in KnownPoolMeta}

\* pool?.f and knownPool?.f
GetOpt(obj, f) == IF obj = Undefined \/ obj = Null THEN Undefined ELSE Get(obj, f)

\* variant: tvlUsd is read before liquidity
bluefinTvlReordered(pool) ==
    Or(Get(pool, "tvl"), Or(Get(pool, "totalValueLocked"),
       Or(Get(pool, "tvlUsd"), Or(Get(pool, "liquidity"), Num(0)))))

\* pool.tvl || pool.totalValueLocked || pool.liquidity || pool.tvlUsd || 0
bluefinTvl(pool) ==
    Or(Get(pool, "tvl"), Or(Get(pool, "totalValueLocked"),
       Or(Get(pool, "liquidity"), Or(Get(pool, "tvlUsd"), Num(0)))))

\* parsePool of the Bluefin fetcher
parsePoolBluefin(pool) ==
    [id |-> Or(Get(pool, "poolAddress"), Or(Get(pool, "pool_address"),
               Or(Get(pool, "address"), Get(pool, "id")))),
     tvl |-> bluefinTvl(pool),
     volume_24h |-> Or(Get(pool, "volume24h"), Or(Get(pool, "volume_24h"),
                       Or(Get(pool, "dailyVolume"), Num(0)))),
     fees_24h |-> Or(Get(pool, "fees24h"), Or(Get(pool, "fees_24h"),
                     Or(Get(pool, "dailyFees"), Num(0)))),
     feeRate |-> Or(Get(pool, "feeRate"), Or(Get(pool, "fee_rate"),
                    Or(Get(pool, "swapFee"), Num(DefaultFeeRate)))),
     apr |-> Or(Get(pool, "apr"), Or(Get(pool, "apy"), Num(0))),
     volume_7d |-> Or(Get(pool, "volume7d"), Or(Get(pool, "volume_7d"), Num(0))),
     volume_30d |-> Or(Get(pool, "volume30d"), Or(Get(pool, "volume_30d"), Num(0)))]

\* parsePool of the Cetus fetcher: null when no address is found
parsePoolCetus(pool, knownPool) ==
    LET poolAddress == Or(GetOpt(pool, "poolAddress"), Or(GetOpt(pool, "pool_address"),
                          Or(GetOpt(pool, "address"), GetOpt(knownPool, "id"))))
        liquidity == Or(GetOpt(pool, "liquidity"), Or(GetOpt(pool, "current_liquidity"), Num(0)))
        sqrtPrice == Or(GetOpt(pool, "current_sqrt_price"), Or(GetOpt(pool, "sqrtPrice"), Num(0)))
        feeRate == Or(GetOpt(pool, "fee_rate"), Or(GetOpt(pool, "feeRate"), Num(0)))
    IN IF ~Truthy(poolAddress) THEN Null
       ELSE [id |-> poolAddress,
             tvl |-> Num(liquidity.num * 2),
             feeRate |-> Or(feeRate, Num(CetusDefaultFeePpm)),
             liquidity |-> liquidity,
             sqrtPrice |-> sqrtPrice]

NoParseInput == [dex |-> "none"]

ParseIdle ==
    /\ apiIn = NoParseInput
    /\ parsed = NotCalled

ParseInit ==
    /\ apiIn \in ParseInputs
    /\ parsed = NotCalled

parsePoolBluefinCall ==
    /\ apiIn.dex = "Bluefin"
    /\ parsed = NotCalled
    /\ parsed' = parsePoolBluefin(apiIn.pool)
    /\ UNCHANGED apiIn

parsePoolCetusCall ==
    /\ apiIn.dex = "Cetus"
    /\ parsed = NotCalled
    /\ parsed' = parsePoolCetus(apiIn.pool, apiIn.known)
    /\ UNCHANGED apiIn

ParseNext ==
    \/ parsePoolBluefinCall
    \/ parsePoolCetusCall

\* the functions checked on their own
pureVars == <<configVars, scriptVars, parseVars>>
PureIdle == ConfigIdle /\ ScriptIdle /\ ParseIdle

(***************************************************************************)
(* Specifications.                                                         *)
(***************************************************************************)
vars == <<aggVars, raceVars, clientVars, pureVars, normVars, fetchVars, facadeVars, overlapVars>>

\* everything but the aggregation layers' own variables is at rest
RestIdle == RaceIdle /\ ClientIdle /\ PureIdle /\ NormIdle /\ FetchIdle /\ FacadeIdle /\ OverlapIdle

Init == AggInit /\ RestIdle

\* the aggregation layers, one call at a time
Next == AggNext /\ UNCHANGED <<raceVars, clientVars, pureVars, normVars, fetchVars, facadeVars, overlapVars>>
Spec == Init /\ [][Next]_vars

\* the aggregation layers, two overlapping calls
NextRace == RaceNext /\ UNCHANGED <<clientVars, pureVars, normVars, fetchVars, facadeVars, overlapVars>>
SpecRace == Init /\ [][NextRace]_vars

\* the query client
NextQuery ==
    QueryNext /\ UNCHANGED <<aggVars, raceVars, batchVars, pureVars, normVars, fetchVars, facadeVars, overlapVars>>
SpecQuery == Init /\ [][NextQuery]_vars

\* normalizePool on its own
InitNormalize == AggInit /\ RaceIdle /\ ClientIdle /\ PureIdle /\ NormInit /\ FetchIdle /\ FacadeIdle /\ OverlapIdle
NextNormalize == NormNext /\ UNCHANGED <<aggVars, raceVars, clientVars, pureVars, fetchVars, facadeVars, overlapVars>>
SpecNormalize == InitNormalize /\ [][NextNormalize]_vars

\* the module state of an aggregation layer that is not called
AggAtRest(t) ==
    /\ layer = "SDK" /\ now = t /\ cache = EmptyCache
    /\ calls = [c \in CallIds |-> IdleCall]

\* one fetcher on its own, called when the clock reads 3 * TickMs
InitFetch ==
    /\ AggAtRest(3 * TickMs)
    /\ RaceIdle /\ ClientIdle /\ PureIdle /\ NormIdle /\ FetchInit /\ FacadeIdle /\ OverlapIdle
NextFetch == FetchNext /\ UNCHANGED <<aggVars, raceVars, clientVars, pureVars, normVars, facadeVars, overlapVars>>
SpecFetch == InitFetch /\ [][NextFetch]_vars

\* the Full Sail SDK fetcher, one lookup at a time
InitLookup ==
    /\ AggAtRest(3 * TickMs)
    /\ RaceIdle /\ ClientIdle /\ PureIdle /\ NormIdle /\ LookupInit /\ FacadeIdle /\ OverlapIdle
NextLookup == LookupNext /\ UNCHANGED <<aggVars, raceVars, clientVars, pureVars, normVars, facadeVars, overlapVars>>
SpecLookup == InitLookup /\ [][NextLookup]_vars

\* queryObjectsByIds on its own
NextBatch ==
    BatchNext /\ UNCHANGED <<aggVars, raceVars, queryVars, pureVars, normVars, fetchVars, facadeVars, overlapVars>>
SpecBatch == Init /\ [][NextBatch]_vars

\* mode selection on its own
InitConfig ==
    /\ AggInit /\ RaceIdle /\ ClientIdle /\ NormIdle /\ FetchIdle /\ FacadeIdle /\ OverlapIdle
    /\ ConfigInit /\ ScriptIdle /\ ParseIdle
NextConfig ==
    /\ ConfigNext
    /\ UNCHANGED <<aggVars, raceVars, clientVars, normVars, fetchVars, facadeVars, overlapVars>>
    /\ UNCHANGED <<scriptVars, parseVars>>
SpecConfig == InitConfig /\ [][NextConfig]_vars

\* processPool on its own
InitScript ==
    /\ AggAtRest(TickMs) /\ RaceIdle /\ ClientIdle /\ NormIdle /\ FetchIdle /\ FacadeIdle /\ OverlapIdle
    /\ ConfigIdle /\ ScriptInit /\ ParseIdle
NextScript ==
    /\ ScriptNext
    /\ UNCHANGED <<aggVars, raceVars, clientVars, normVars, fetchVars, facadeVars, overlapVars>>
    /\ UNCHANGED <<configVars, parseVars>>
SpecScript == InitScript /\ [][NextScript]_vars

\* parsePool on its own
InitParse ==
    /\ AggAtRest(TickMs) /\ RaceIdle /\ ClientIdle /\ NormIdle /\ FetchIdle /\ FacadeIdle /\ OverlapIdle
    /\ ConfigIdle /\ ScriptIdle /\ ParseInit
NextParse ==
    /\ ParseNext
    /\ UNCHANGED <<aggVars, raceVars, clientVars, normVars, fetchVars, facadeVars, overlapVars>>
    /\ UNCHANGED <<configVars, scriptVars>>
SpecParse == InitParse /\ [][NextParse]_vars

\* SDK mode with the Cetus fetcher's localStorage entry
InitSdk ==
    SdkInit /\ RaceIdle /\ ClientIdle /\ PureIdle /\ NormIdle /\ FacadeIdle /\ OverlapIdle
NextSdk == SdkNext /\ UNCHANGED <<raceVars, clientVars, pureVars, normVars, facadeVars, overlapVars>>
SpecSdk == InitSdk /\ [][NextSdk]_vars

\* the facade
InitFacade ==
    /\ AggAtRest(TickMs)
    /\ RaceIdle /\ ClientIdle /\ PureIdle /\ NormIdle /\ FetchIdle /\ FacadeInit /\ OverlapIdle
NextFacade ==
    FacadeNext /\ UNCHANGED <<raceVars, clientVars, pureVars, normVars, fetchVars, overlapVars>>
SpecFacade == InitFacade /\ [][NextFacade]_vars

\* the three caching modules: a behaviour is about one of them
InitModules == Init \/ InitFacade
NextModules ==
    \/ fmode = "none" /\ NextRace
    \/ NextFacade
SpecModules == InitModules /\ [][NextModules]_vars

\* overlapping calls of each caching module
NextOverlap ==
    \/ fmode = "none" /\ NextRace
    \/ FacadeOverlapNext /\ UNCHANGED <<raceVars, clientVars, pureVars, normVars, fetchVars>>
SpecOverlap == InitModules /\ [][NextOverlap]_vars

(***************************************************************************)
(* Properties of the aggregation layers.                                   *)
(***************************************************************************)
\* call c starts in this step, with forceRefresh = f
Starts(c, f) ==
    calls[c].pc = "idle" /\ calls'[c].pc # "idle" /\ calls'[c].forceRefresh = f

\* call c has completed an aggregation pass of its own
Fresh(c) == calls[c].pc = "done" /\ ~calls[c].fromCache

FulfilledWith(r, n) == r.status = "fulfilled" /\ Len(r.value) = n
FulfilledNonEmpty(r) == r.status = "fulfilled" /\ Len(r.value) >= 1

\* C1: a forceRefresh=false call made while an entry exists that was stored
\* less than 5 minutes ago returns the cached result and invokes no fetcher;
\* made when an entry exists that is 5 minutes old or older, it invokes each
\* of the three fetchers again.
C1_CacheTTL ==
    [][\A c \in CallIds :
          (Starts(c, FALSE) /\ cache.data # Null) =>
             IF now - cache.timestamp < 5 * 60 * 1000
             THEN /\ calls'[c].pc = "done"
                  /\ calls'[c].ret = [cache.data EXCEPT !.mode = layer]
                  /\ \A d \in DexSet : calls'[c].invoked[d] = 0
             ELSE /\ calls'[c].pc = "await"
                  /\ \A d \in DexSet : calls'[c].invoked[d] = 1]_vars

\* an unforced call has refetched over an entry that had reached the TTL
C1_Witness ==
    /\ calls[1].pc = "await" /\ ~calls[1].forceRefresh
    /\ cache.data # Null
    /\ now - cache.timestamp = CACHE_TTL_MS
    /\ \A d \in DexSet : calls[1].invoked[d] = 1

\* C2: every call with forceRefresh=true invokes each of the three fetchers
\* exactly once, whatever the state and age of the cache entry.
C2_ForceRefresh ==
    [][\A c \in CallIds :
          Starts(c, TRUE) =>
             /\ calls'[c].pc = "await"
             /\ \A d \in DexSet : calls'[c].invoked[d] = 1]_vars

\* a forced call has started a second pass over a young entry
C2_Witness ==
    /\ calls[1].pc = "await" /\ calls[1].forceRefresh
    /\ cache.data # Null
    /\ now - cache.timestamp < CACHE_TTL_MS
    /\ \A d \in DexSet : calls[1].invoked[d] = 1

\* C3: a pass in which exactly one fetcher rejects and the other two resolve
\* with N1 >= 1 and N2 >= 1 pools completes only once all three have settled,
\* and returns N1 + N2 pools with 'failed' for the rejecting exchange and
\* 'success' for the other two.
C3_PartialFailure ==
    \A c \in CallIds :
        Fresh(c) =>
           /\ \A d \in DexSet : calls[c].results[d] # Pending
           /\ \A r \in DexSet :
                 (/\ calls[c].results[r].status = "rejected"
                  /\ \A d \in DexSet \ {r} : FulfilledNonEmpty(calls[c].results[d]))
                 => \E a, b \in DexSet \ {r} :
                       /\ a # b
                       /\ Len(calls[c].ret.pools) =
                             Len(calls[c].results[a].value) + Len(calls[c].results[b].value)
                       /\ calls[c].ret.fetchStatus =
                             [d \in DexSet |-> IF d = r THEN "failed" ELSE "success"]

\* the first fetcher rejected, the other two resolved with 1 and 2 pools
C3_Witness ==
    /\ Fresh(1)
    /\ calls[1].results["Cetus"].status = "rejected"
    /\ FulfilledWith(calls[1].results["Bluefin"], 1)
    /\ FulfilledWith(calls[1].results["Full Sail"], 2)
    /\ Len(calls[1].ret.pools) = 3

\* C4: in the SDK layer fetchStatus[dex] is 'failed' if and only if the
\* exchange's fetcher rejected or resolved to an empty array, and 'success'
\* otherwise.
C4_SDKFailedIffRejectedOrEmpty ==
    \A c \in CallIds :
        (Fresh(c) /\ layer = "SDK") =>
           \A d \in DexSet :
              /\ calls[c].ret.fetchStatus[d] \in {"failed", "success"}
              /\ calls[c].ret.fetchStatus[d] = "failed" <=>
                    \/ calls[c].results[d].status = "rejected"
                    \/ FulfilledWith(calls[c].results[d], 0)

\* an SDK pass with one fetcher rejected, one empty and one non-empty
C4_Witness ==
    /\ layer = "SDK" /\ Fresh(1)
    /\ calls[1].results["Cetus"].status = "rejected"
    /\ FulfilledWith(calls[1].results["Bluefin"], 0)
    /\ FulfilledNonEmpty(calls[1].results["Full Sail"])
    /\ calls[1].ret.fetchStatus["Bluefin"] = "failed"

\* C5 as stated: in the GraphQL layer a fetcher that resolves to an empty
\* array is recorded as 'success'; only a rejected fetcher is 'failed'.
C5_AsStated ==
    \A c \in CallIds :
        (Fresh(c) /\ layer = "GraphQL") =>
           \A d \in DexSet :
              calls[c].ret.fetchStatus[d] = "failed" <=>
                 calls[c].results[d].status = "rejected"

\* C5 amended: in the GraphQL layer a fetcher that resolves to an empty array
\* is recorded as 'failed', like a rejected one, and contributes zero pools;
\* a fetcher is 'success' exactly when it resolves to a non-empty array.
C5_GraphQLEmptyIsFailed ==
    \A c \in CallIds :
        (Fresh(c) /\ layer = "GraphQL") =>
           /\ \A d \in DexSet :
                 calls[c].ret.fetchStatus[d] = "success" <=>
                    FulfilledNonEmpty(calls[c].results[d])
           /\ \A d \in DexSet :
                 FulfilledWith(calls[c].results[d], 0) =>
                    /\ calls[c].ret.fetchStatus[d] = "failed"
                    /\ \A i \in 1..Len(calls[c].ret.pools) :
                          calls[c].ret.pools[i].dex # Str(d)

\* a GraphQL pass in which a fetcher resolved to [] while another had pools
C5_Witness ==
    /\ layer = "GraphQL" /\ Fresh(1)
    /\ FulfilledWith(calls[1].results["Full Sail"], 0)
    /\ FulfilledNonEmpty(calls[1].results["Cetus"])
    /\ calls[1].ret.fetchStatus["Full Sail"] = "failed"

\* the fetcher of exchange d failed in call c: it rejected or brought no data
FetcherFailed(c, d) ==
    \/ calls[c].results[d].status = "rejected"
    \/ FulfilledWith(calls[c].results[d], 0)

\* C6: when all three fetchers fail in one pass the call still returns a
\* well-formed result: no pools, totalPools 0, totalTVL 0 and 'failed' for
\* all three exchanges.
C6_TotalFailure ==
    \A c \in CallIds :
        (calls[c].pc = "done" /\ ~calls[c].fromCache
            /\ \A d \in DexSet : FetcherFailed(c, d)) =>
           /\ calls[c].ret.pools = <<>>
           /\ calls[c].ret.summary.totalPools = 0
           /\ calls[c].ret.summary.totalTVL = 0
           /\ DOMAIN calls[c].ret.dexStats = {}
           /\ calls[c].ret.mode = layer
           /\ \A d \in DexSet : calls[c].ret.fetchStatus[d] = "failed"

\* a pass in which two fetchers rejected and one resolved to []
C6_Witness ==
    /\ Fresh(1)
    /\ calls[1].results["Cetus"].status = "rejected"
    /\ calls[1].results["Bluefin"].status = "rejected"
    /\ FulfilledWith(calls[1].results["Full Sail"], 0)
    /\ calls[1].ret.pools = <<>>

(***************************************************************************)
(* Properties of the query client.                                         *)
(***************************************************************************)
IsNetworkFailure(r) == r.kind = "networkError"

IsSuccess(r) ==
    /\ r.kind = "response" /\ r.status \in 200..299 /\ r.body.json
    /\ (r.body.hasErrors => r.body.errors = <<>>)

IsHttpFailure(r) == r.kind = "response" /\ r.status \notin 200..299

IsGraphQLFailure(r) ==
    /\ r.kind = "response" /\ r.status \in 200..299 /\ r.body.json
    /\ r.body.hasErrors /\ r.body.errors # <<>>

AllNetworkFailures == \A i \in 1..Len(responses) : IsNetworkFailure(responses[i])

\* C7: executeQuery makes at most 3 network attempts; a network failure of
\* attempt k < 3 is followed by attempt k + 1 (after the backoff), the first
\* successful attempt returns its data with no further attempt, and after 3
\* network failures it rejects with the error of the last attempt.
C7_RetryOnNetworkFailure ==
    /\ fetchCalls <= 3
    /\ (AllNetworkFailures /\ Len(responses) \in 1..2) =>
          \/ qpc = "sleeping" /\ fetchCalls = Len(responses)
          \/ qpc = "fetching" /\ fetchCalls = Len(responses) + 1
    /\ (Len(responses) >= 1 /\ IsSuccess(responses[Len(responses)])) =>
          /\ qpc = "returned"
          /\ qret = responses[Len(responses)].body.data
          /\ fetchCalls = Len(responses)
    /\ (AllNetworkFailures /\ Len(responses) = 3) =>
          /\ qpc = "threw"
          /\ qret = NetworkError(2)
          /\ fetchCalls = 3

\* three network failures in a row: the call has thrown
C7_Witness ==
    /\ Len(responses) = 3 /\ AllNetworkFailures
    /\ qpc = "threw" /\ sleeps = <<500, 1000>>

\* C8 as stated: a non-2xx answer makes executeQuery fail at once, with an
\* error naming the status code, after exactly one network call and with no
\* retry and no backoff sleep.
C8_HttpErrorFailsAtOnce ==
    (Len(responses) >= 1 /\ IsHttpFailure(responses[1])) =>
       /\ qpc = "threw"
       /\ qret = HttpError(responses[1].status)
       /\ fetchCalls = 1
       /\ sleeps = <<>>

\* C9 as stated: a 2xx answer with a non-empty errors list makes
\* executeQuery fail at once, with the error messages, after exactly one
\* network call and with no retry and no backoff sleep.
C9_GraphQLErrorFailsAtOnce ==
    (Len(responses) >= 1 /\ IsGraphQLFailure(responses[1])) =>
       /\ qpc = "threw"
       /\ qret = GraphQLErrors(responses[1].body.errors)
       /\ fetchCalls = 1
       /\ sleeps = <<>>

(***************************************************************************)
(* Properties of the derived statistics.                                   *)
(***************************************************************************)
NullAsZero(x) == IF x = Null THEN 0 ELSE x.num

RECURSIVE SumOver(_, _)
SumOver(S, f) ==
    IF S = {} THEN 0
    ELSE LET x == CHOOSE y \in S : TRUE IN f[x] + SumOver(S \ {x}, f)

PoolsOf(res, k) == {i \in 1..Len(res.pools) : res.pools[i].dex = Str(k)}

StatsConsistent(res) ==
    /\ DOMAIN res.dexStats = {res.pools[i].dex.str : i \in 1..Len(res.pools)}
    /\ \A k \in DOMAIN res.dexStats :
          /\ res.dexStats[k].poolCount = Cardinality(PoolsOf(res, k))
          /\ res.dexStats[k].totalTVL =
                SumOver(PoolsOf(res, k), [i \in PoolsOf(res, k) |-> NullAsZero(res.pools[i].tvl)])
          /\ res.dexStats[k].volume24h =
                SumOver(PoolsOf(res, k), [i \in PoolsOf(res, k) |-> NullAsZero(res.pools[i].volume_24h)])
          /\ res.dexStats[k].fees24h =
                SumOver(PoolsOf(res, k), [i \in PoolsOf(res, k) |-> NullAsZero(res.pools[i].fees_24h)])
    /\ res.summary.totalPools = Len(res.pools)
    /\ res.summary.totalTVL =
          SumOver(DOMAIN res.dexStats, [k \in DOMAIN res.dexStats |-> res.dexStats[k].totalTVL])

\* C10: in every freshly computed result the keys of dexStats are the dex
\* values of the pools; per dex, poolCount counts its pools and totalTVL,
\* volume24h, fees24h sum tvl, volume_24h, fees_24h with null as 0;
\* summary.totalPools is the number of pools and summary.totalTVL the sum of
\* the dexStats totalTVL.
C10_StatsConsistency ==
    \A c \in CallIds : Fresh(c) => StatsConsistent(calls[c].ret)

\* a fresh result with two pools of one exchange, one of them with tvl null
C10_Witness ==
    /\ Fresh(1)
    /\ \E i, j \in 1..Len(calls[1].ret.pools) :
          /\ i # j
          /\ calls[1].ret.pools[i].dex = calls[1].ret.pools[j].dex
          /\ calls[1].ret.pools[i].tvl = Null
          /\ calls[1].ret.pools[j].tvl # Null
    /\ Cardinality(DOMAIN calls[1].ret.dexStats) = 3

\* call c completes its aggregation pass in this step
Completes(c) == calls[c].pc = "await" /\ calls'[c].pc = "done"

\* C13: the completion of a pass stores the returned result, whether or not
\* it has pools, with the current time as the entry's timestamp; a
\* forceRefresh=false call made within the TTL of a stored result returns
\* that result, an empty one included, and invokes no fetcher.
C13_CacheOverwrite ==
    [][\A c \in CallIds :
          /\ Completes(c) =>
                cache' = [data |-> calls'[c].ret, timestamp |-> now]
          /\ (Starts(c, FALSE) /\ cache.data # Null
                  /\ now - cache.timestamp < CACHE_TTL_MS) =>
                /\ calls'[c].pc = "done"
                /\ calls'[c].ret = [cache.data EXCEPT !.mode = layer]
                /\ \A d \in DexSet : calls'[c].invoked[d] = 0]_vars

\* an unforced call has been served a stored result that has no pools
C13_Witness ==
    /\ calls[1].pc = "done" /\ calls[1].fromCache /\ ~calls[1].forceRefresh
    /\ cache.data # Null
    /\ Len(cache.data.pools) = 0
    /\ calls[1].ret = [cache.data EXCEPT !.mode = layer]
    /\ now - cache.timestamp < CACHE_TTL_MS

\* C14: when a forced pass completes while another call is under way, the
\* other call is left as it is and the completing pass stores its result;
\* once two forced passes have both completed, the entry is the result of
\* the one that completed last, whichever was invoked first.
C14_LastWriteWins ==
    [][\A c \in CallIds :
          (Completes(c) /\ calls[c].forceRefresh) =>
             /\ cache' = [data |-> calls'[c].ret, timestamp |-> now]
             /\ \A o \in CallIds \ {c} : calls'[o] = calls[o]
             /\ (Len(doneOrder') = 2 /\ \A o \in CallIds : Fresh(o)' /\ calls'[o].forceRefresh) =>
                   cache'.data = calls'[doneOrder'[2]].ret]_vars

\* two forced passes overlapped; the one invoked first completed last and
\* its result, which differs from the other's, is the entry
C14_Witness ==
    /\ Len(startOrder) = 2 /\ startOrder[1].call = 1 /\ startOrder[2].call = 2
    /\ startOrder[2].returned = 0
    /\ doneOrder = <<2, 1>>
    /\ \A c \in CallIds : Fresh(c) /\ calls[c].forceRefresh
    /\ calls[1].ret # calls[2].ret
    /\ cache.data = calls[1].ret

(***************************************************************************)
(* Properties of normalizePool.                                            *)
(***************************************************************************)
Normalized == rawIn # Null /\ normOut # Null

\* the claim as worded: every metric, apr included, keeps null and keeps 0
C11_AsStated ==
    (Normalized /\ layer = "SDK") =>
        \A f \in NumericFields \ {"feeRate"} :
            /\ Get(rawIn, f) = Null => normOut[f] = Null
            /\ Get(rawIn, f) = Num(0) => normOut[f] = Num(0)

\* C11: in the SDK layer a raw metric of null stays null and a raw metric of
\* 0 stays a number: 0 for every metric read through toNumber, and for apr
\* the raw apy when that is non-zero, 0 otherwise.  A metric reported as
\* unavailable is therefore never confused with one reported as 0.
C11_NullVsZero ==
    (Normalized /\ layer = "SDK") =>
        /\ \A f \in NumericFields \ {"feeRate"} :
                /\ Get(rawIn, f) = Null => normOut[f] = Null
                /\ Get(rawIn, f) = Num(0) => IsNum(normOut[f])
        /\ \A f \in PlainFields \ {"feeRate"} :
                Get(rawIn, f) = Num(0) => normOut[f] = Num(0)
        /\ Get(rawIn, "apr") = Num(0) =>
                normOut.apr = Or(Get(rawIn, "apy"), Num(0))

C11_Witness ==
    /\ Normalized /\ layer = "SDK"
    /\ Get(rawIn, "volume_24h") = Null /\ normOut.volume_24h = Null
    /\ Get(rawIn, "tvl") = Num(0) /\ normOut.tvl = Num(0)
    /\ Get(rawIn, "apr") = Null /\ normOut.apr = Null

\* the claim as worded: a missing apr defaults to 0
C12_AsStated ==
    Normalized =>
        \A f \in NumericFields :
            /\ IsNum(normOut[f]) \/ normOut[f] = Null
            /\ f \notin DOMAIN rawIn =>
                    normOut[f] = IF f = "feeRate" THEN Num(DefaultFeeRate) ELSE Num(0)

\* C12: in both layers every numeric field of the normalized record is a
\* number or null, never undefined; a missing feeRate becomes 0.003, a
\* missing apr becomes the raw apy when that is a non-zero number and 0
\* otherwise, and every other missing field becomes 0.
C12_Totality ==
    Normalized =>
        /\ \A f \in NumericFields : IsNum(normOut[f]) \/ normOut[f] = Null
        /\ \A f \in PlainFields :
                f \notin DOMAIN rawIn =>
                    normOut[f] = IF f = "feeRate" THEN Num(DefaultFeeRate) ELSE Num(0)
        /\ "apr" \notin DOMAIN rawIn =>
                normOut.apr = Or(Get(rawIn, "apy"), Num(0))

C12_Witness ==
    /\ Normalized
    /\ DOMAIN rawIn \cap NumericFields = {"tvl"}
    /\ Get(rawIn, "apy") = Num(1)
    /\ normOut.apr = Num(1)
    /\ normOut.feeRate = Num(DefaultFeeRate)
    /\ normOut.volume_24h = Num(0)

(***************************************************************************)
(* Properties of the per-DEX fetchers.                                     *)
(***************************************************************************)
Fetched == fetcher # "none" /\ fres # Null

\* the fetchers whose parser can meet a record it cannot parse
ParsingFetchers == GraphQLFetchers \cup {"cetus-sdk", "bluefin-sdk"}

\* known pool i reached the parser and could not be parsed
Unparsable(i) ==
    /\ fetcher \in ParsingFetchers
    /\ env.items[i] = "bad"
    /\ fetcher \in GraphQLFetchers => env.src = "data"
    /\ fetcher = "bluefin-sdk" => env.src = "array"
    /\ fetcher = "cetus-sdk" => fres.calls > 0

ResolvedToArray == fres.settled.status = "fulfilled" /\ IsArray(fres.settled.value)

HasPool(i) ==
    \E k \in 1..Len(fres.settled.value.arr) : fres.settled.value.arr[k].id = i

Corrupt(ls) ==
    \/ ls.kind # "object"
    \/ "data" \notin DOMAIN ls.value
    \/ "timestamp" \notin DOMAIN ls.value

\* C20: with a missing, unreadable, unparsable or incomplete localStorage
\* entry, getCachedData yields no pool list and the fetcher (fetchCetusPools
\* of SDK mode, fetchAllPools) goes on to fetch, and resolves.
C20_CorruptEntryIsMiss ==
    (Fetched /\ fetcher \in CachingFetchers /\ ~env.force /\ Corrupt(stored)) =>
        /\ ~IsArray(fres.cached)
        /\ fres.calls > 0
        /\ fres.settled.status = "fulfilled"

(***************************************************************************)
(* Properties of the facade and of the three clear functions.              *)
(***************************************************************************)
FacadeStarts(f) ==
    fcall.pc = "idle" /\ fcall'.pc # "idle" /\ fcall'.forceRefresh = f

FacadeCompletes == fcall.pc = "await" /\ fcall'.pc = "done"

\* the claim as worded: no entry is ever held and every call is delegated
C16_AsStated ==
    fmode \in DATA_SOURCE_MODES =>
        /\ fcache = EmptyCache
        /\ fcall.pc = "done" => (fcall.delegated = 1 /\ fcall.ret.mode = fmode)

\* C16: the facade keeps a cache entry of its own.  A forceRefresh=false call
\* made while the entry is younger than 5 minutes returns the entry with the
\* mode tag and is not delegated; every other call is delegated once to the
\* source of the configured mode, and on its completion the result, tagged
\* with the mode, is both returned and stored with the current time.
C16_FacadeCaches ==
    [][/\ (FacadeStarts(FALSE) /\ fcache.timestamp > 0
              /\ now - fcache.timestamp < CACHE_TTL_MS) =>
            /\ fcall'.pc = "done"
            /\ fcall'.ret = [fcache.data EXCEPT !.mode = fmode]
            /\ fcall'.delegated = 0
       /\ FacadeStarts(TRUE) =>
            fcall'.pc = "await" /\ fcall'.delegated = 1
       /\ (FacadeStarts(FALSE)
              /\ ~(fcache.timestamp > 0 /\ now - fcache.timestamp < CACHE_TTL_MS)) =>
            fcall'.pc = "await" /\ fcall'.delegated = 1
       /\ FacadeCompletes =>
            /\ fcall'.ret.mode = fmode
            /\ fcache' = [data |-> fcall'.ret, timestamp |-> now]]_vars

\* a call has been answered from the facade's own entry, without delegation
C16_Witness ==
    /\ fmode \in DATA_SOURCE_MODES
    /\ fcall.pc = "done" /\ fcall.fromCache /\ fcall.delegated = 0
    /\ fcache.data # Null
    /\ fcall.ret = [fcache.data EXCEPT !.mode = fmode]

TvlSum(pools) == SumOver(DOMAIN pools, [i \in DOMAIN pools |-> pools[i].tvl.num])

\* the facade has returned a result it computed from the payload p
FacadeFresh == fmode \in DATA_SOURCE_MODES /\ fcall.pc = "done" /\ ~fcall.fromCache

PayloadHasSummary ==
    fmode = "graphql" /\ "summary" \in DOMAIN fcall.data.data

\* the claim as worded: the totals agree with the pools whatever the payload
C17_AsStated ==
    FacadeFresh =>
        /\ fcall.ret.summary.totalPools = Len(fcall.ret.pools)
        /\ fcall.ret.summary.totalTVL = TvlSum(fcall.ret.pools)

\* C17: in a result computed by the facade, summary.totalPools is the number
\* of returned pools and summary.totalTVL the sum of their tvl when the
\* payload carries no summary (DefiLlama mode, or a dex-data.json without
\* one); when the payload carries a summary, each of its fields is returned
\* as it is, in place of the computed one.
C17_SummaryTotals ==
    FacadeFresh =>
        IF PayloadHasSummary
        THEN \A k \in DOMAIN fcall.data.data.summary :
                fcall.ret.summary[k] = fcall.data.data.summary[k]
        ELSE /\ fcall.ret.summary.totalPools = Len(fcall.ret.pools)
             /\ fcall.ret.summary.totalTVL = TvlSum(fcall.ret.pools)

\* the local JSON had pools and no summary: the totals are the computed ones
C17_Witness ==
    /\ FacadeFresh /\ fmode = "graphql" /\ ~PayloadHasSummary
    /\ Len(fcall.ret.pools) = MaxPoolsPerDex
    /\ fcall.ret.summary.totalPools = MaxPoolsPerDex
    /\ fcall.ret.summary.totalTVL = TvlSum(fcall.ret.pools)
    /\ fcall.ret.summary.totalTVL > 0

\* C18: a clear (clearSDKCache, clearGraphQLCache, the facade's clearCache)
\* leaves its module's entry empty, and a forceRefresh=false call made while
\* the entry is empty invokes the fetchers (the facade: its source),
\* however recently a pass completed before the clear.
C18_ClearForcesFetch ==
    [][/\ (calls' = calls /\ cache' # cache) => cache' = EmptyCache
       /\ \A c \in CallIds :
             (Starts(c, FALSE) /\ cache = EmptyCache) =>
                /\ calls'[c].pc = "await"
                /\ \A d \in DexSet : calls'[c].invoked[d] = 1
       /\ (fcall' = fcall /\ fcache' # fcache) => fcache' = EmptyCache
       /\ (FacadeStarts(FALSE) /\ fcache = EmptyCache) =>
             fcall'.pc = "await" /\ fcall'.delegated = 1]_vars

\* a pass completed at the current time, the entry was cleared, and the
\* unforced call made after that has invoked the fetchers
C18_Witness ==
    /\ Len(startOrder) = 2 /\ startOrder[2].returned = 1
    /\ doneOrder = <<startOrder[1].call>>
    /\ Fresh(startOrder[1].call)
    /\ calls[startOrder[1].call].ret.lastUpdated = now
    /\ calls[startOrder[2].call].pc = "await"
    /\ ~calls[startOrder[2].call].forceRefresh
    /\ \A d \in DexSet : calls[startOrder[2].call].invoked[d] = 1
    /\ cache = EmptyCache

(***************************************************************************)
(* Properties of queryObjectsByIds.                                        *)
(***************************************************************************)
\* the aliases of a query are obj0 .. obj(n-1), one for each identifier in order
AliasesIds(q, ids) ==
    /\ Len(q) = Len(ids)
    /\ \A k \in 1..Len(ids) : q[k].alias = k - 1 /\ q[k].address = ids[k]

\* C19: queryObjectsByIds called with zero identifiers returns [] without
\* any network call; called with N >= 1 identifiers it makes exactly one
\* executeQuery invocation, whose query aliases N sub-queries, one per
\* identifier.
C19_OneBatchedQuery ==
    bpc # "idle" =>
       /\ Len(bIds) = 0 =>
            /\ bpc = "returned" /\ bret = Arr(<<>>)
            /\ bExec = <<>> /\ bFetches = 0
       /\ Len(bIds) >= 1 =>
            /\ Len(bExec) = 1
            /\ AliasesIds(bExec[1], bIds)
            /\ Cardinality({bExec[1][k].alias : k \in 1..Len(bIds)}) = Len(bIds)

\* a call with three identifiers, two of them equal, has returned
C19_Witness ==
    /\ bIds = <<"0x111", "0x222", "0x111">>
    /\ bpc = "returned" /\ Len(bExec) = 1 /\ Len(bExec[1]) = 3
    /\ bret = Arr(<<ObjectAt("0x111"), ObjectAt("0x111")>>)

(***************************************************************************)
(* Properties of mode selection.                                           *)
(***************************************************************************)
\* C21: getMode returns 'defillama' when VITE_DATA_SOURCE_MODE is missing or
\* not one of the DATA_SOURCE_MODES values, getInitialDataSource returns
\* 'defillama' when the source parameter is absent or not one of 'sdk',
\* 'graphql', 'defillama', and a recognized value is returned unchanged.
C21_ModeFallback ==
    /\ modeOut # NotCalled =>
          modeOut = IF envMode \in {Str("defillama"), Str("graphql")}
                    THEN envMode ELSE Str("defillama")
    /\ sourceOut # NotCalled =>
          sourceOut = IF urlSource \in {Str("sdk"), Str("graphql"), Str("defillama")}
                      THEN urlSource ELSE Str("defillama")

\* an unrecognized environment value fell back while the URL's 'sdk' was kept
C21_Witness ==
    /\ envMode = Str("sdk") /\ modeOut = Str("defillama")
    /\ urlSource = Str("sdk") /\ sourceOut = Str("sdk")

(***************************************************************************)
(* Properties of processPool.                                              *)
(***************************************************************************)
PoolKept == poolOut # NotCalled /\ poolOut # Null

ReserveA == reserveOf(poolIn, poolIn.rawA)
ReserveB == reserveOf(poolIn, poolIn.rawB)
PairHas(sym) == \E k \in 1..Len(poolIn.tokens) : poolIn.tokens[k] = sym
StableAt(k) == k <= Len(poolIn.tokens) /\ poolIn.tokens[k] \in stablecoins
SuiReserve == IF poolIn.tokens[1] = "SUI" THEN ReserveA ELSE ReserveB
LargerReserve == IF ReserveA >= ReserveB THEN ReserveA ELSE ReserveB
PriceTenths == IF poolIn.price \in {Undefined, Num(0)} THEN 45 ELSE poolIn.price.num

\* C22 as stated: the stable branch is taken only by a pair of two stable
\* tokens; a pair with one stable token and no SUI is priced by its larger
\* reserve.
C22_AsStated ==
    PoolKept =>
       IF PairHas("SUI") THEN poolOut.tvl = SuiReserve * PriceTenths * 2
       ELSE IF StableAt(1) /\ StableAt(2)
            THEN poolOut.tvl \in {ReserveA * 1000 * 2 * 10, ReserveB * 1000 * 2 * 10}
       ELSE poolOut.tvl = LargerReserve * PriceTenths * 2

\* C22: processPool's TVL estimate is the SUI reserve x SUI price x 2 when
\* the pair includes SUI; else, when at least one token is a stablecoin, the
\* reserve of the stable token (token A's when both are) x 1000 x 2; otherwise
\* the larger reserve x SUI price x 2.  The pool is dropped exactly when it
\* has no data or the estimate is not positive.
C22_TvlPolicy ==
    LET expected ==
          IF PairHas("SUI") THEN SuiReserve * PriceTenths * 2
          ELSE IF StableAt(1) THEN ReserveA * 1000 * 2 * 10
          ELSE IF StableAt(2) THEN ReserveB * 1000 * 2 * 10
          ELSE LargerReserve * PriceTenths * 2
    IN poolOut # NotCalled =>
         IF poolIn.hasData /\ expected > 0
         THEN poolOut # Null /\ poolOut.tvl = expected
         ELSE poolOut = Null

\* a USDC/CETUS pool with the larger reserve on the CETUS side was priced by
\* its USDC reserve
C22_Witness ==
    /\ PoolKept
    /\ poolIn.tokens = <<"USDC", "CETUS">>
    /\ ReserveA = 1 /\ ReserveB = 2
    /\ poolOut.tvl = 20000

(***************************************************************************)
(* Properties of per-pool parsing.                                         *)
(***************************************************************************)
RECURSIVE FirstWhere(_, _, _, _, _)
\* the value of the first alias from position k on that satisfies Test, else d
FirstWhere(Test(_), obj, chain, k, d) ==
    IF k > Len(chain) THEN d
    ELSE IF Test(GetOpt(obj, chain[k])) THEN GetOpt(obj, chain[k])
    ELSE FirstWhere(Test, obj, chain, k + 1, d)

IsSet(v) == v # Undefined /\ v # Null

BluefinDefault(key) ==
    CASE key = "id" -> Undefined
      [] key = "feeRate" -> Num(30)
      [] OTHER -> Num(0)

BluefinParsed == apiIn.dex = "Bluefin" /\ parsed # NotCalled
CetusParsed == apiIn.dex = "Cetus" /\ parsed # NotCalled

\* C23 as stated: each value of a parsed Bluefin pool is that of the first
\* alias that is present in the raw pool, the default when none is.
C23_AsStated ==
    BluefinParsed =>
       \A key \in DOMAIN BluefinAliases \ {"id"} :
          parsed[key] = FirstWhere(IsSet, apiIn.pool, BluefinAliases[key], 1,
                                   BluefinDefault(key))

\* C23: in per-pool parsing each logical value is taken from the first alias,
\* in the fixed priority order, whose value is truthy (set, not null, not 0
\* and not the empty string); the default is used only when no alias has a
\* truthy value, so a truthy higher-priority alias is never overridden.
C23_FirstTruthyAlias ==
    /\ BluefinParsed =>
          /\ \A key \in DOMAIN BluefinAliases \ {"id"} :
                parsed[key] = FirstWhere(Truthy, apiIn.pool, BluefinAliases[key], 1,
                                         BluefinDefault(key))
          /\ parsed.id = FirstWhere(Truthy, apiIn.pool, <<"poolAddress", "pool_address", "address">>,
                                    1, GetOpt(apiIn.pool, "id"))
    /\ CetusParsed =>
          LET addr == FirstWhere(Truthy, apiIn.pool, CetusAliases.id, 1,
                                 GetOpt(apiIn.known, "id"))
          IN IF ~Truthy(addr) THEN parsed = Null
             ELSE /\ parsed # Null
                  /\ parsed.id = addr
                  /\ parsed.liquidity =
                        FirstWhere(Truthy, apiIn.pool, CetusAliases.liquidity, 1, Num(0))
                  /\ parsed.sqrtPrice =
                        FirstWhere(Truthy, apiIn.pool, CetusAliases.sqrtPrice, 1, Num(0))
                  /\ parsed.feeRate =
                        FirstWhere(Truthy, apiIn.pool, CetusAliases.feeRate, 1, Num(3000))

\* a Bluefin pool whose tvl is 0 and whose liquidity and tvlUsd are set was
\* parsed: the value of liquidity was taken
C23_Witness ==
    /\ BluefinParsed
    /\ Get(apiIn.pool, "tvl") = Num(0)
    /\ Get(apiIn.pool, "totalValueLocked") = Undefined
    /\ Get(apiIn.pool, "liquidity") = Num(3)
    /\ Get(apiIn.pool, "tvlUsd") = Num(4)
    /\ parsed.tvl = Num(3)

(***************************************************************************)
(* Properties of the three module-level caches together.                   *)
(***************************************************************************)
\* C24: in every reachable state of each module-level cache, after any
\* interleaving of fetch calls and clear calls, cache.data is null exactly
\* when cache.timestamp is 0.
C24_DataIffTimestamp ==
    /\ (cache.data = Null) <=> (cache.timestamp = 0)
    /\ (fcache.data = Null) <=> (fcache.timestamp = 0)

\* both overlapping passes have stored their results and the entry was
\* cleared after that
C24_Witness ==
    /\ Len(doneOrder) = 2
    /\ \A c \in CallIds : calls[c].pc = "done" /\ ~calls[c].fromCache
    /\ cache = EmptyCache

(***************************************************************************)
(* Properties of SDK mode with the Cetus fetcher's localStorage entry.     *)
(***************************************************************************)
\* the entry holds a non-empty pool list stored at most 5 minutes ago
ValidCetusEntry ==
    /\ stored.kind = "object"
    /\ DOMAIN stored.value = {"data", "timestamp"}
    /\ Len(stored.value.data.arr) > 0
    /\ now - stored.value.timestamp.num <= CACHE_TTL_MS

CetusSettlesNow == calls[1].results["Cetus"] = Pending /\ calls'[1].results["Cetus"] # Pending

\* C25: whenever the Cetus fetcher's localStorage entry holds a non-empty
\* pool list at most 5 minutes old, fetchCetusPools returns that list without
\* any SDK call, also on behalf of a forceRefresh=true call of
\* fetchSDKPoolData; clearSDKCache leaves the entry as it is.
C25_CetusCacheNotBypassed ==
    [][/\ (CetusSettlesNow /\ ValidCetusEntry) =>
             /\ calls'[1].results["Cetus"] = Fulfilled(cetusRawList(stored.value.data))
             /\ fres'.calls = 0
             /\ stored' = stored
       /\ (calls' = calls /\ cache' # cache) => stored' = stored]_vars

\* a forced refresh has returned, one tick after an earlier pass stored the
\* Cetus list, with that list and without any SDK call
C25_Witness ==
    /\ calls[1].pc = "done" /\ calls[1].forceRefresh /\ ~calls[1].fromCache
    /\ fres # Null /\ fres.calls = 0
    /\ stored.kind = "object" /\ stored.value.data # StoredData
    /\ stored.value.timestamp.num < now
    /\ calls[1].results["Cetus"] = Fulfilled(cetusRawList(stored.value.data))
    /\ calls[1].ret.fetchStatus["Cetus"] = "success"

(***************************************************************************)
(* Properties of the facade's failures.                                    *)
(***************************************************************************)
\* the awaited source of the facade's call settles in this step
FacadeSettles == fcall.pc = "await" /\ fcall'.pc # "await"

FailedPayload == fcall'.data.kind \in {"networkError", "notOk", "badJson"}

\* C26: when the facade's underlying fetch rejects (local-JSON mode, with a
\* failed request, a non-OK response or an unparsable body), fetchPoolData
\* rejects and leaves cache.data and cache.timestamp unchanged, and an entry
\* within its TTL is served to a forceRefresh=false call.
C26_RejectionKeepsCache ==
    [][/\ (FacadeSettles /\ fmode = "graphql" /\ FailedPayload) =>
             fcall'.pc = "rejected" /\ fcache' = fcache
       /\ (FacadeSettles /\ fcall'.pc = "rejected") =>
             fmode = "graphql" /\ FailedPayload /\ fcache' = fcache
       /\ (fcall.pc = "rejected" /\ fcall'.pc = "idle") => fcache' = fcache
       /\ (FacadeStarts(FALSE) /\ fcache.data # Null
              /\ now - fcache.timestamp < CACHE_TTL_MS) =>
             fcall'.fromCache /\ fcall'.ret = [fcache.data EXCEPT !.mode = fmode]]_vars

\* a forced refresh was rejected while an entry stored by an earlier call is
\* within its TTL
C26_Witness ==
    /\ fmode = "graphql"
    /\ fcall.pc = "rejected" /\ fcall.forceRefresh /\ fcall.data.kind = "notOk"
    /\ fcache.data # Null /\ Len(fcache.data.pools) > 0
    /\ now - fcache.timestamp < CACHE_TTL_MS

(***************************************************************************)
(* Properties of the aggregated result's status map and pool order.        *)
(***************************************************************************)
\* the list that the fetcher of exchange d contributed to call c
Contribution(c, d) ==
    IF calls[c].results[d].status = "fulfilled" /\ Len(calls[c].results[d].value) > 0
    THEN calls[c].results[d].value
    ELSE <<>>

\* C27: in every result of fetchSDKPoolData / fetchGraphQLPoolData,
\* fetchStatus has exactly the keys 'Cetus', 'Bluefin', 'Full Sail' with
\* values 'success' or 'failed', a fetcher recorded as 'failed' contributes
\* no pool, and the pools are the successful fetchers' lists joined in the
\* order Cetus, Bluefin, Full Sail, whatever the order of settling.
C27_StatusAndOrder ==
    \A c \in CallIds :
       /\ calls[c].pc = "done" =>
             /\ DOMAIN calls[c].ret.fetchStatus = {"Cetus", "Bluefin", "Full Sail"}
             /\ \A d \in DexSet : calls[c].ret.fetchStatus[d] \in {"success", "failed"}
             /\ \A d \in DexSet :
                   calls[c].ret.fetchStatus[d] = "failed" =>
                      \A k \in 1..Len(calls[c].ret.pools) :
                         calls[c].ret.pools[k].dex # Str(d)
       /\ Fresh(c) =>
             LET joined == Contribution(c, "Cetus") \o Contribution(c, "Bluefin")
                             \o Contribution(c, "Full Sail")
             IN /\ calls[c].ret.pools =
                      [k \in 1..Len(joined) |-> normalizePool(layer, joined[k])]
                /\ \A d \in DexSet :
                      calls[c].ret.fetchStatus[d] = "failed" <=> Contribution(c, d) = <<>>

\* Cetus failed while Bluefin and Full Sail each gave two pools: the result
\* lists the Bluefin pools before the Full Sail pools
C27_Witness ==
    /\ Fresh(1)
    /\ calls[1].results["Cetus"].status = "rejected"
    /\ calls[1].ret.fetchStatus =
          [d \in DexSet |-> IF d = "Cetus" THEN "failed" ELSE "success"]
    /\ Len(calls[1].ret.pools) = 4
    /\ calls[1].ret.pools[1].dex = Str("Bluefin")
    /\ calls[1].ret.pools[3].dex = Str("Full Sail")

(***************************************************************************)
(* Properties of overlapping calls.                                        *)
(***************************************************************************)
\* the module's entry cannot be served at the current time
ColdCache == ~(cache.data # Null /\ now - cache.timestamp < CACHE_TTL_MS)
FacadeColdCache == ~(fcache.timestamp > 0 /\ now - fcache.timestamp < CACHE_TTL_MS)

\* the facade's second call starts in this step, with forceRefresh = f
OverlapStarts(f) ==
    fcall2.pc = "idle" /\ fcall2'.pc # "idle" /\ fcall2'.forceRefresh = f

\* C28: passes are not coalesced.  A forceRefresh=false call that starts
\* while the entry is empty or expired and another pass of the same module is
\* in flight starts a pass of its own: each per-DEX fetcher (the facade: its
\* source) has then been invoked once for each of the two calls.
C28_NotCoalesced ==
    [][/\ \A c \in CallIds :
             (Starts(c, FALSE) /\ ColdCache /\ InFlight \ {c} # {}) =>
                /\ calls'[c].pc = "await"
                /\ \A d \in DexSet :
                      /\ calls'[c].invoked[d] = 1
                      /\ \A o \in InFlight : calls'[o].invoked[d] = 1
       /\ (OverlapStarts(FALSE) /\ FacadeColdCache) =>
             /\ fcall2'.pc = "await" /\ fcall2'.delegated = 1
             /\ fcall'.pc = "await" /\ fcall'.delegated = 1]_vars

\* two cold forceRefresh=false calls overlap: each fetcher has been invoked
\* once for either call
C28_Witness ==
    /\ \A c \in CallIds : calls[c].pc = "await" /\ ~calls[c].forceRefresh
    /\ \A c \in CallIds, d \in DexSet : calls[c].invoked[d] = 1
    /\ startOrder[2].returned = 0
    /\ cache = EmptyCache

(***************************************************************************)
(* Properties of a clear issued during a pass.                             *)
(***************************************************************************)
\* the cache is cleared in this step
Clears == calls' = calls /\ now' = now /\ clearedDuring' # clearedDuring

\* C29: a clear issued while a pass is in flight does not stay in effect.
\* The clear empties the entry and leaves the pass running; when the pass
\* completes it stores its result with the current time, and a
\* forceRefresh=false call made within the TTL after that is served from
\* the entry.
C29_ClearDuringPass ==
    [][/\ Clears => (cache' = EmptyCache /\ InFlight # {})
       /\ \A c \in CallIds :
             (Completes(c) /\ c \in clearedDuring) =>
                /\ cache' = [data |-> calls'[c].ret, timestamp |-> now]
                /\ cache'.data # Null
       /\ \A c \in CallIds :
             (Starts(c, FALSE) /\ cache.data # Null
                /\ now - cache.timestamp < CACHE_TTL_MS) =>
                /\ calls'[c].fromCache
                /\ calls'[c].ret = [cache.data EXCEPT !.mode = layer]]_vars

\* the first pass was in flight at a clear and has completed; the second
\* call, made after that without forceRefresh, was served the first pass's
\* result from the cache
C29_Witness ==
    /\ Len(startOrder) = 2 /\ startOrder[2].returned = 1
    /\ clearedDuring = {startOrder[1].call}
    /\ Fresh(startOrder[1].call)
    /\ calls[startOrder[2].call].pc = "done"
    /\ calls[startOrder[2].call].fromCache
    /\ ~calls[startOrder[2].call].forceRefresh
    /\ calls[startOrder[2].call].ret = calls[startOrder[1].call].ret
    /\ cache.data = calls[startOrder[1].call].ret

(***************************************************************************)
(* Properties of the Full Sail SDK lookups.                                *)
(***************************************************************************)
\* the positions in the sequence of calls at which call x was made
CallsOf(x) == {k \in 1..Len(lookups) : lookups[k] = x}

\* the backend's record of pool i carries dinamic_stats
HasStats(i) == env.items[i].backend = "stats"

\* the chain lookup of pool i yields a pool
OnChain(i) == env.items[i].chain = "pool"

\* C30: fetchPoolById calls Pool.getById first and returns the backend's
\* record when it carries dinamic_stats; Pool.getByIdFromChain is called only
\* after the backend lookup threw or returned no dinamic_stats, and then it
\* is called; the result is null, and the pool is missing from the returned
\* list, only when the chain lookup also throws or finds no pool.
C30_BackendThenChain ==
    \A i \in KnownPools :
        /\ Cardinality(CallsOf(GetById(i))) <= 1
        /\ Cardinality(CallsOf(GetByIdFromChain(i))) <= 1
        /\ poolPromises[i].pc # "idle" <=> CallsOf(GetById(i)) # {}
        /\ \A k \in CallsOf(GetByIdFromChain(i)) :
              /\ ~HasStats(i)
              /\ \E j \in CallsOf(GetById(i)) : j < k
        /\ poolPromises[i].pc = "chain" => CallsOf(GetByIdFromChain(i)) # {}
        /\ poolPromises[i].pc = "settled" =>
              /\ HasStats(i) => /\ poolPromises[i].ret = ParsedPool(i, 1)
                                /\ CallsOf(GetByIdFromChain(i)) = {}
              /\ ~HasStats(i) => CallsOf(GetByIdFromChain(i)) # {}
              /\ (~HasStats(i) /\ OnChain(i)) => poolPromises[i].ret = ParsedPool(i, 0)
              /\ poolPromises[i].ret = Null <=> (~HasStats(i) /\ ~OnChain(i))
              /\ poolPromises[i].ret = fetchPoolById(i, env.items[i])
        /\ (fres # Null /\ env.src = "ok") =>
              /\ poolPromises[i].pc = "settled"
              /\ fres.settled = Fulfilled(fetchFullSailPoolsSDK(env))
              /\ (\E k \in 1..Len(fres.settled.value.arr) :
                     fres.settled.value.arr[k].id = i)
                    <=> (HasStats(i) \/ OnChain(i))

\* the fetcher has returned a list of one pool, found on the chain after its
\* backend lookup threw; the other pool's backend record had no
\* dinamic_stats and the chain did not have the pool
C30_Witness ==
    /\ fetcher = "fullsail-sdk" /\ fres # Null /\ Len(lookups) = 4
    /\ \E i, j \in KnownPools :
          /\ env.items[i] = [backend |-> "throws", chain |-> "pool"]
          /\ env.items[j] = [backend |-> "nostats", chain |-> "null"]
          /\ poolPromises[j].ret = Null
          /\ fres.settled = Fulfilled(Arr(<<ParsedPool(i, 0)>>))
====
